---- MODULE Spec2Model ----
(***************************************************************************)
(* A model of the Latch evaluator (src/src/interpreter.rs) and of its      *)
(* scope chain and shared containers (src/src/env.rs).                     *)
(*                                                                         *)
(* Values are records [t, v] with an integer payload: the integer itself,  *)
(* 0/1 for a boolean, the number of a string, the handle of the storage    *)
(* cell of a list or a map (the Arc<Mutex<..>>), the index of a function   *)
(* value in the table fns.  A frame is a total function over Names that    *)
(* maps a name the HashMap does not hold to Undef; the scope chain is a    *)
(* sequence of frames whose last element is the innermost frame.           *)
(***************************************************************************)
EXTENDS Integers, Sequences, FiniteSets, TLC

\* ---------------------------------------------------------------- bounds
MaxInt == 4
MaxLen == 2
MaxCells == 3
MaxFns == 2
MaxDepth == 2
MaxOut == 3
MaxFuel == 3
MaxProg == 2
MaxSrc == 5

Names == {"x", "y", "a", "b", "c", "e", "i", "f", "l", "v"}
Keys == {1, 2, 3}

\* ---------------------------------------------------------------- values
Undef == [t |-> "undef", v |-> 0]
Null == [t |-> "null", v |-> 0]
IntV(n) == [t |-> "int", v |-> n]
BoolV(b) == [t |-> "bool", v |-> IF b THEN 1 ELSE 0]
\* A float that is a whole number of halves: v is twice the float.
FloatV(halves) == [t |-> "float", v |-> halves]
StrV(s) == [t |-> "string", v |-> s]
ListV(h) == [t |-> "list", v |-> h]
MapV(h) == [t |-> "dict", v |-> h]
FnV(id) == [t |-> "fn", v |-> id]

\* The numbers of the strings the model uses: map keys are 1..2, and the
\* string form of an error (format!("{e}") in a catch arm) is 10 + its rank.
ErrKinds == <<"TypeMismatch", "DivisionByZero", "IndexOutOfBounds", "KeyNotFound",
              "UndefinedVariable", "UndefinedFunction", "ArgCountMismatch",
              "GenericError", "ReturnSignal", "StopSignal", "BreakSignal",
              "ContinueSignal">>
ErrRank(kind) == CHOOSE n \in 1..Len(ErrKinds) : ErrKinds[n] = kind
ErrText(err) == StrV(10 + ErrRank(err.kind))

\* Result<(), LatchError>: kind "Ok", or the error variant with its payload.
Ok == [kind |-> "Ok", v |-> Null]
Err(kind) == [kind |-> kind, v |-> Null]
ErrV(kind, val) == [kind |-> kind, v |-> val]
IsOk(r) == r.kind = "Ok"

type_name(val) == val.t

is_truthy(val) ==
  CASE val.t = "bool" -> val.v = 1
    [] val.t = "null" -> FALSE
    [] val.t = "int" -> val.v # 0
    [] val.t = "string" -> val.v # 0
    [] OTHER -> TRUE

\* ------------------------------------------------------------ scope chain
EmptyFrame == [n \in Names |-> Undef]
EnvNew == <<EmptyFrame>>

RECURSIVE get(_, _)
get(env, name) ==
  IF Len(env) = 0 THEN Undef
  ELSE IF env[Len(env)][name] # Undef THEN env[Len(env)][name]
  ELSE get(SubSeq(env, 1, Len(env) - 1), name)

set(env, name, val) == [env EXCEPT ![Len(env)][name] = val]

\* The index of the innermost frame that holds name, 0 when none does.
RECURSIVE owner(_, _)
owner(env, name) ==
  IF Len(env) = 0 THEN 0
  ELSE IF env[Len(env)][name] # Undef THEN Len(env)
  ELSE owner(SubSeq(env, 1, Len(env) - 1), name)

\* An assign that always writes to the innermost frame, as set does.
assign_innermost(env, name, val) == [env |-> set(env, name, val), r |-> Ok]

assign(env, name, val) ==
  LET d == owner(env, name) IN
  IF d = 0 THEN [env |-> env, r |-> Err("UndefinedVariable")]
  ELSE [env |-> [env EXCEPT ![d][name] = val], r |-> Ok]

child(env) == Append(env, EmptyFrame)
into_parent(env) == SubSeq(env, 1, Len(env) - 1)

\* ------------------------------------------------------------------ heap
\* A storage cell: the Vec or HashMap behind one Arc<Mutex<..>>, and the
\* worker that holds the mutex (0: unlocked).
EmptyMap == [k \in Keys |-> Undef]
FreeCell == [kind |-> "free", items |-> <<>>, map |-> EmptyMap, owner |-> 0]
ListCell(items) == [kind |-> "list", items |-> items, map |-> EmptyMap, owner |-> 0]
MapCell(m) == [kind |-> "dict", items |-> <<>>, map |-> m, owner |-> 0]
EmptyHeap == [h \in 1..MaxCells |-> FreeCell]

FreeHandles(heap) == {h \in DOMAIN heap : heap[h].kind = "free"}
NextHandle(heap) ==
  IF FreeHandles(heap) = {} THEN 0
  ELSE CHOOSE h \in FreeHandles(heap) : \A g \in FreeHandles(heap) : h <= g

\* ------------------------------------------------------- evaluator state
\* env: the interpreter's scope chain (self.env); heap: the storage cells;
\* fns: the function values; out: what print wrote; ovf: a bound of the
\* model was exceeded (the step that set it is not taken).
StNew == [env |-> EnvNew, heap |-> EmptyHeap, fns |-> <<>>, out |-> <<>>, ovf |-> FALSE,
          hasher |-> <<1, 2, 3>>]

Overflow(st) == [st EXCEPT !.ovf = TRUE]

Ret(st, val) == [st |-> st, r |-> Ok, v |-> val]
Fail(st, err) == [st |-> st, r |-> err, v |-> Null]
Done(st, r) == [st |-> st, r |-> r]

\* Outcomes that are no Result: "Panic", a Rust panic that unwinds through
\* every caller, and "Relock", `lock()` on a std Mutex the thread already
\* holds, which never returns (it panics or it blocks for ever).
unwinds(result) == result.kind \in {"Panic", "Relock"}

\* The owner mark of a cell whose MutexGuard the evaluating thread holds.
Held == 0 - 1
lock_held(st, h) == st.heap[h].owner = Held

\* Value::new_list / Value::new_map: a fresh cell.
new_list(st, items) ==
  LET h == NextHandle(st.heap) IN
  IF h = 0 \/ Len(items) > MaxLen THEN Ret(Overflow(st), Null)
  ELSE Ret([st EXCEPT !.heap[h] = ListCell(items)], ListV(h))

new_map(st, m) ==
  LET h == NextHandle(st.heap) IN
  IF h = 0 THEN Ret(Overflow(st), Null)
  ELSE Ret([st EXCEPT !.heap[h] = MapCell(m)], MapV(h))

\* ------------------------------------------------------------------- AST
\* Expressions (ast.rs Expr) and statements (ast.rs Stmt) as records tagged k.
EInt(n) == [k |-> "Int", n |-> n]
EFloat(halves) == [k |-> "Float", halves |-> halves]
EBool(b) == [k |-> "Bool", b |-> b]
ENull == [k |-> "Null"]
EStr(s) == [k |-> "Str", s |-> s]
EList(items) == [k |-> "List", items |-> items]
EMap(entries) == [k |-> "Map", entries |-> entries]
EIdent(name) == [k |-> "Ident", name |-> name]
EBin(op, l, r) == [k |-> "BinOp", op |-> op, left |-> l, right |-> r]
ECall(name, args) == [k |-> "Call", name |-> name, args |-> args]
EIndex(e, i) == [k |-> "Index", expr |-> e, index |-> i]
EFn(params, body) == [k |-> "Fn", params |-> params, body |-> body]
EOr(e, d) == [k |-> "OrDefault", expr |-> e, default |-> d]
EListComp(body, var, iter) == [k |-> "ListComp", body |-> body, var |-> var, iter |-> iter]

None == [some |-> FALSE]
Some(x) == [some |-> TRUE, x |-> x]
EPipe(e, func) == [k |-> "Pipe", expr |-> e, func |-> func]
ERange(start, end) == [k |-> "Range", start |-> start, end |-> end]
\* start and end are Option<Box<Expr>>: None or Some(e).
ESlice(e, start, end) == [k |-> "Slice", expr |-> e, start |-> start, end |-> end]
Param(name) == [name |-> name, default |-> None]
ParamDef(name, e) == [name |-> name, default |-> Some(e)]

SLet(name, e) == [k |-> "Let", name |-> name, value |-> e]
SAssign(name, e) == [k |-> "Assign", name |-> name, value |-> e]
SCompoundAssign(name, op, e) == [k |-> "CompoundAssign", name |-> name, op |-> op, value |-> e]
SIndexAssign(t, i, e) == [k |-> "IndexAssign", target |-> t, index |-> i, value |-> e]
SIf(c, then, else_) == [k |-> "If", cond |-> c, then |-> then, else_ |-> else_]
SFor(var, iter, body) == [k |-> "For", var |-> var, iter |-> iter, body |-> body]
SWhile(c, body) == [k |-> "While", cond |-> c, body |-> body]
SFn(name, params, body) == [k |-> "Fn", name |-> name, params |-> params, body |-> body]
SReturn(e) == [k |-> "Return", value |-> e]
STry(body, cv, cb, fin) ==
  [k |-> "Try", body |-> body, catch_var |-> cv, catch_body |-> cb, finally_body |-> fin]
SStop(e) == [k |-> "Stop", value |-> e]
SBreak == [k |-> "Break"]
SContinue == [k |-> "Continue"]
SExpr(e) == [k |-> "Expr", expr |-> e]
SParallel(var, iter, n, body) ==
  [k |-> "Parallel", var |-> var, iter |-> iter, workers |-> n, body |-> body]
\* The parser's else block: a statement that wraps the block in Expr::Fn.
ElseBlock(body) == Some(SExpr(EFn(<<>>, body)))

\* ----------------------------------------------------------- expressions
InRange(n) == n \in (0 - MaxInt)..MaxInt

\* `guard.keys()`: the keys a HashMap holds, in the order of its hasher.
hash_iter(m, order) == SelectSeq(order, LAMBDA k : m[k] # Undef)

\* The keys as the map iterates them, left as they come.
unsorted(keys) == keys

\* `keys.sort()` on a Vec<String> without duplicates: ascending order.
sort(keys) ==
  LET S == {keys[i] : i \in DOMAIN keys} IN
  [i \in 1..Len(keys) |-> CHOOSE k \in S : Cardinality({j \in S : j < k}) = i - 1]

int_binop(op, a, b, st) ==
  CASE op = "Add" -> IF InRange(a + b) THEN Ret(st, IntV(a + b)) ELSE Ret(Overflow(st), Null)
    [] op = "Sub" -> IF InRange(a - b) THEN Ret(st, IntV(a - b)) ELSE Ret(Overflow(st), Null)
    [] op = "Div" -> IF b = 0 THEN Fail(st, Err("DivisionByZero"))
                     ELSE IF a >= 0 /\ b > 0 THEN Ret(st, IntV(a \div b))
                     ELSE Ret(Overflow(st), Null)
    [] op = "Eq" -> Ret(st, BoolV(a = b))
    [] op = "NotEq" -> Ret(st, BoolV(a # b))
    [] op = "Lt" -> Ret(st, BoolV(a < b))
    [] op = "Gt" -> Ret(st, BoolV(a > b))
    [] op \in {"And", "Or", "In"} -> Fail(st, Err("TypeMismatch"))
    [] OTHER -> Ret(Overflow(st), Null)

\* The comparisons of float_binop on floats given in halves.
float_binop(op, a, b, st) ==
  CASE op = "Eq" -> Ret(st, BoolV(a = b))
    [] op = "NotEq" -> Ret(st, BoolV(a # b))
    [] op = "Lt" -> Ret(st, BoolV(a < b))
    [] op = "Gt" -> Ret(st, BoolV(a > b))
    [] op \in {"And", "Or", "In"} -> Fail(st, Err("TypeMismatch"))
    [] OTHER -> Ret(Overflow(st), Null)

\* `*x as f64`, in halves.
as_f64(n) == 2 * n

\* Iterator::all and Iterator::any over the results of comparing the
\* elements in order: the first result that decides ends the iteration.
all_of(rs) ==
  IF \A i \in DOMAIN rs : rs[i] = "true" THEN "true"
  ELSE rs[CHOOSE i \in DOMAIN rs : rs[i] # "true" /\ \A j \in 1..(i - 1) : rs[j] = "true"]
any_of(rs) ==
  IF \A i \in DOMAIN rs : rs[i] = "false" THEN "false"
  ELSE rs[CHOOSE i \in DOMAIN rs : rs[i] # "false" /\ \A j \in 1..(i - 1) : rs[j] = "false"]

\* values_equal: "true", "false", or "relock" when it locks a cell whose
\* guard the thread holds. held: the cells locked by the callers.
RECURSIVE values_equal(_, _, _, _)
values_equal(a, b, st, held) ==
  LET tf(c) == IF c THEN "true" ELSE "false"
      locked(h, hs) == h \in hs \/ lock_held(st, h)
  IN
  CASE a.t = "int" /\ b.t = "int" -> tf(a.v = b.v)
    [] a.t = "float" /\ b.t = "float" -> tf(a.v = b.v)
    [] a.t = "int" /\ b.t = "float" -> tf(as_f64(a.v) = b.v)
    [] a.t = "float" /\ b.t = "int" -> tf(a.v = as_f64(b.v))
    [] a.t = "bool" /\ b.t = "bool" -> tf(a.v = b.v)
    [] a.t = "string" /\ b.t = "string" -> tf(a.v = b.v)
    [] a.t = "null" /\ b.t = "null" -> "true"
    [] a.t = "list" /\ b.t = "list" ->
         IF locked(a.v, held) \/ locked(b.v, held \cup {a.v}) THEN "relock"
         ELSE LET x_guard == st.heap[a.v].items
                  y_guard == st.heap[b.v].items
              IN  IF Len(x_guard) # Len(y_guard) THEN "false"
                  ELSE all_of([i \in 1..Len(x_guard) |->
                                 values_equal(x_guard[i], y_guard[i], st,
                                              held \cup {a.v, b.v})])
    [] a.t = "dict" /\ b.t = "dict" ->
         IF locked(a.v, held) \/ locked(b.v, held \cup {a.v}) THEN "relock"
         ELSE LET x_guard == st.heap[a.v].map
                  y_guard == st.heap[b.v].map
                  keys == hash_iter(x_guard, st.hasher)
              IN  IF Len(keys) # Len(hash_iter(y_guard, st.hasher)) THEN "false"
                  ELSE all_of([i \in 1..Len(keys) |->
                                 IF y_guard[keys[i]] = Undef THEN "false"
                                 ELSE values_equal(x_guard[keys[i]], y_guard[keys[i]], st,
                                                   held \cup {a.v, b.v})])
    [] OTHER -> "false"

\* Ok(Value::Bool(values_equal(..))) or its negation.
equal_result(op, eq, st) ==
  IF eq = "relock" THEN Fail(st, Err("Relock"))
  ELSE Ret(st, BoolV(IF op = "Eq" THEN eq = "true" ELSE eq = "false"))

\* BinOp::In on the evaluated operands.
in_binop(l, r, st) ==
  CASE r.t = "list" ->
         IF lock_held(st, r.v) THEN Fail(st, Err("Relock"))
         ELSE LET guard == st.heap[r.v].items IN
              equal_result("Eq", any_of([i \in 1..Len(guard) |->
                                           values_equal(guard[i], l, st, {r.v})]), st)
    [] r.t = "dict" ->
         IF lock_held(st, r.v) THEN Fail(st, Err("Relock"))
         ELSE IF l.t # "string" THEN Fail(st, Err("TypeMismatch"))
         ELSE Ret(st, BoolV(l.v \in Keys /\ st.heap[r.v].map[l.v] # Undef))
    [] r.t = "string" ->
         IF l.t # "string" THEN Fail(st, Err("TypeMismatch")) ELSE Ret(Overflow(st), Null)
    [] OTHER -> Fail(st, Err("TypeMismatch"))

\* Operations the model does not evaluate (string concatenation, list
\* multiplication, and the arithmetic int_binop leaves out) set ovf.
eval_binop(op, l, r, st) ==
  IF op \in {"Eq", "NotEq"} /\ (l.t = "null" \/ r.t = "null")
  THEN LET is_eq == l.t = "null" /\ r.t = "null" IN
       Ret(st, BoolV(IF op = "Eq" THEN is_eq ELSE ~is_eq))
  ELSE IF op = "Add" /\ l.t = "string" /\ r.t = "string" THEN Ret(Overflow(st), Null)
  ELSE IF op = "In" THEN in_binop(l, r, st)
  ELSE CASE l.t = "int" /\ r.t = "int" -> int_binop(op, l.v, r.v, st)
         [] l.t = "float" /\ r.t = "float" -> float_binop(op, l.v, r.v, st)
         [] l.t = "int" /\ r.t = "float" -> float_binop(op, as_f64(l.v), r.v, st)
         [] l.t = "float" /\ r.t = "int" -> float_binop(op, l.v, as_f64(r.v), st)
         [] l.t = "bool" /\ r.t = "bool" ->
              CASE op = "And" -> Ret(st, BoolV(l.v = 1 /\ r.v = 1))
                [] op = "Or" -> Ret(st, BoolV(l.v = 1 \/ r.v = 1))
                [] op = "Eq" -> Ret(st, BoolV(l.v = r.v))
                [] op = "NotEq" -> Ret(st, BoolV(l.v # r.v))
                [] OTHER -> Fail(st, Err("TypeMismatch"))
         [] l.t = "string" /\ r.t = "string" ->
              CASE op = "Eq" -> Ret(st, BoolV(l.v = r.v))
                [] op = "NotEq" -> Ret(st, BoolV(l.v # r.v))
                [] OTHER -> Fail(st, Err("TypeMismatch"))
         [] l.t \in {"list", "dict"} /\ r.t = l.t ->
              IF op \in {"Eq", "NotEq"}
              THEN equal_result(op, values_equal(l, r, st, {}), st)
              ELSE Fail(st, Err("TypeMismatch"))
         [] (l.t = "list" /\ r.t = "int") \/ (l.t = "int" /\ r.t = "list") ->
              IF op = "Mul" THEN Ret(Overflow(st), Null) ELSE Fail(st, Err("TypeMismatch"))
         [] OTHER -> Fail(st, Err("TypeMismatch"))

\* What print writes for a value: a scalar as it is, a list with its items.
Render(val, heap) ==
  [t |-> val.t, v |-> IF val.t \in {"list", "dict"} THEN 0 ELSE val.v,
   items |-> IF val.t = "list" THEN heap[val.v].items ELSE <<>>]

print(st, val) ==
  IF Len(st.out) >= MaxOut THEN Overflow(st)
  ELSE [st EXCEPT !.out = Append(st.out, Render(val, st.heap))]

\* A range that holds its end as well: (s..=e).
range_items_inclusive(s, e) == [i \in 1..(e - s + 1) |-> IntV(s + i - 1)]

\* `(s..e).map(Value::Int).collect()`: s, s+1, ... while below e.
range_items(s, e) == [i \in 1..(e - s) |-> IntV(s + i - 1)]

\* list.lock().unwrap().push(v)
push_cell(heap, h, val) == [heap EXCEPT ![h].items = Append(heap[h].items, val)]

\* An index read whose negative list index counts from the end of the list.
index_read_from_end(container, idx, st) ==
  IF container.t = "list" /\ idx.t = "int"
  THEN LET items == st.heap[container.v].items
           i == IF idx.v < 0 THEN Len(items) + idx.v ELSE idx.v
       IN  IF i < 0 \/ i >= Len(items) THEN Fail(st, Err("IndexOutOfBounds"))
           ELSE Ret(st, items[i + 1])
  ELSE IF container.t = "dict" /\ idx.t = "string"
  THEN IF idx.v \notin Keys \/ st.heap[container.v].map[idx.v] = Undef
       THEN Fail(st, Err("KeyNotFound"))
       ELSE Ret(st, st.heap[container.v].map[idx.v])
  ELSE Fail(st, Err("TypeMismatch"))

\* Expr::Index on the evaluated container and index.
index_read(container, idx, st) ==
  IF container.t \in {"list", "dict"} /\ idx.t = (IF container.t = "list" THEN "int" ELSE "string")
     /\ lock_held(st, container.v)
  THEN Fail(st, Err("Relock"))
  ELSE IF container.t = "list" /\ idx.t = "int"
  THEN LET items == st.heap[container.v].items IN
       IF idx.v < 0 \/ idx.v >= Len(items) THEN Fail(st, Err("IndexOutOfBounds"))
       ELSE Ret(st, items[idx.v + 1])
  ELSE IF container.t = "dict" /\ idx.t = "string"
  THEN IF idx.v \notin Keys THEN Fail(st, Err("KeyNotFound"))
       ELSE IF st.heap[container.v].map[idx.v] = Undef THEN Fail(st, Err("KeyNotFound"))
       ELSE Ret(st, st.heap[container.v].map[idx.v])
  ELSE Fail(st, Err("TypeMismatch"))

\* A store that never reaches the cell.
cell_store_lost(container, idx, val, st) == Done(st, Ok)

\* The write of an index-assign through a container handle: the match arms
\* shared by Env::index_assign and the nested case of Stmt::IndexAssign.
cell_store(container, idx, val, st) ==
  IF container.t = "list" /\ idx.t = "int"
  THEN LET items == st.heap[container.v].items IN
       \* `*i as usize`: a negative index wraps to a huge one
       IF idx.v < 0 \/ idx.v >= Len(items) THEN Done(st, Err("IndexOutOfBounds"))
       ELSE Done([st EXCEPT !.heap[container.v].items[idx.v + 1] = val], Ok)
  ELSE IF container.t = "dict" /\ idx.t = "string"
  THEN IF idx.v \notin Keys THEN Done(Overflow(st), Ok)
       ELSE Done([st EXCEPT !.heap[container.v].map[idx.v] = val], Ok)
  ELSE Done(st, Err("TypeMismatch"))

index_assign(name, idx, val, st) ==
  LET d == owner(st.env, name) IN
  IF d = 0 THEN Done(st, Err("UndefinedVariable"))
  ELSE cell_store(st.env[d][name], idx, val, st)

\* Value::into_list: a clone of the list's items.
into_list(val, st) ==
  IF val.t = "list" THEN [r |-> Ok, items |-> st.heap[val.v].items]
  ELSE [r |-> Err("TypeMismatch"), items |-> <<>>]

\* A clone that copies the contents of a list or a map into a new cell.
value_clone_deep(val, st) ==
  IF val.t \in {"list", "dict"}
  THEN LET h == NextHandle(st.heap) IN
       IF h = 0 THEN Ret(Overflow(st), Null)
       ELSE Ret([st EXCEPT !.heap[h] = st.heap[val.v]], [t |-> val.t, v |-> h])
  ELSE Ret(st, val)

\* `.cloned()` of a value read from a frame: Value's derived Clone copies a
\* scalar and, for a list or a map, the Arc (the handle), never the contents.
value_clone(val, st) == Ret(st, val)

\* The index of a function value in fns; an entry equal to one already there
\* is the same immutable value and shares its index.
fn_value(st, entry) ==
  IF \E i \in 1..Len(st.fns) : st.fns[i] = entry
  THEN Ret(st, FnV(CHOOSE i \in 1..Len(st.fns) : st.fns[i] = entry))
  ELSE IF Len(st.fns) >= MaxFns THEN Ret(Overflow(st), Null)
  ELSE Ret([st EXCEPT !.fns = Append(st.fns, entry)], FnV(Len(st.fns) + 1))

\* A scope that is the child of the caller's chain whatever was captured.
closure_scope_dynamic(captured_env, caller_env) == child(caller_env)

\* call_closure's scope: the child of the captured chain, or of a clone of
\* the caller's chain for a declared function.
closure_scope(captured_env, caller_env) ==
  IF captured_env.some THEN child(captured_env.x) ELSE child(caller_env)

\* A match that turns a stop into the value of the call as well.
closure_result_value(result) ==
  CASE result.kind = "Ok" -> [r |-> Ok, v |-> Null]
    [] result.kind \in {"ReturnSignal", "StopSignal"} -> [r |-> Ok, v |-> result.v]
    [] OTHER -> [r |-> result, v |-> Null]

\* call_closure's match on the body's result.
closure_result(result) ==
  CASE result.kind = "Ok" -> [r |-> Ok, v |-> Null]
    [] result.kind = "ReturnSignal" -> [r |-> Ok, v |-> result.v]
    [] OTHER -> [r |-> result, v |-> Null]

\* `matches!(e, LatchError::ReturnSignal(_))` in Stmt::Try: the results of
\* the body that the catch arm does not handle.
try_passes(result) == result.kind = "ReturnSignal"

\* Stmt::While's match on the result of a statement of the body: the loop
\* ends, goes round again, or returns the error.
loop_result(result) ==
  CASE result.kind = "BreakSignal" -> "break"
    [] result.kind \in {"Ok", "ContinueSignal"} -> "next"
    [] OTHER -> "error"

\* Stmt::Stop: `val.as_int().unwrap_or(1)`.
stop_code(val) == IF val.t = "int" THEN val.v ELSE 1

\* ------------------------------------------------------------- evaluator
\* The interpreter's methods call one another through `self`: self(call, st)
\* runs the method call.m on the arguments call.a in the state st.
RECURSIVE self(_, _)

self_eval_expr(expr, st) == self([m |-> "eval_expr", a |-> <<expr>>], st)
self_eval_list(es, st) == self([m |-> "eval_list", a |-> <<es>>], st)
self_eval_binop(op, l, r, st) == self([m |-> "eval_binop", a |-> <<op, l, r>>], st)
self_eval_entries(entries, m, st) == self([m |-> "eval_entries", a |-> <<entries, m>>], st)
self_exec_stmt(stmt, st) == self([m |-> "exec_stmt", a |-> <<stmt>>], st)
self_exec_block_inner(block, st) == self([m |-> "exec_block_inner", a |-> <<block>>], st)
self_call_function(name, args, st) == self([m |-> "call_function", a |-> <<name, args>>], st)
self_call_closure(params, body, args, captured_env, st) == self([m |-> "call_closure", a |-> <<params, body, args, captured_env>>], st)
self_bind_params(params, args, i, st) == self([m |-> "bind_params", a |-> <<params, args, i>>], st)
self_for_items(var, body, items, st) == self([m |-> "for_items", a |-> <<var, body, items>>], st)
self_while_loop(cond, body, st, fuel) == self([m |-> "while_loop", a |-> <<cond, body, fuel>>], st)
self_listcomp_items(body, var, items, acc, st) == self([m |-> "listcomp_items", a |-> <<body, var, items, acc>>], st)
\* The methods of SemanticAnalyzer; their state is the analyzer.
self_check_stmt(stmt, an) == self([m |-> "check_stmt", a |-> <<stmt>>], an)
self_check_stmts(stmts, an) == self([m |-> "check_stmts", a |-> <<stmts>>], an)
self_check_expr(expr, an) == self([m |-> "check_expr", a |-> <<expr>>], an)
self_check_exprs(exprs, an) == self([m |-> "check_exprs", a |-> <<exprs>>], an)
self_check_pipe_func(func, an) == self([m |-> "check_pipe_func", a |-> <<func>>], an)


\* `items.into_iter().map(|e| self.eval_expr(e)).collect::<Result<_>>()`
eval_list(es, st) ==
  IF es = <<>> THEN [st |-> st, r |-> Ok, vs |-> <<>>]
  ELSE LET h == self_eval_expr(Head(es), st) IN
       IF ~IsOk(h.r) THEN [st |-> h.st, r |-> h.r, vs |-> <<>>]
       ELSE LET t == self_eval_list(Tail(es), h.st) IN
            [st |-> t.st, r |-> t.r, vs |-> <<h.v>> \o t.vs]

\* Expr::Map: entries are <<key, expression>> pairs, inserted in order.
eval_entries(entries, m, st) ==
  IF entries = <<>> THEN [st |-> st, r |-> Ok, m |-> m]
  ELSE LET h == self_eval_expr(Head(entries)[2], st) IN
       IF ~IsOk(h.r) THEN [st |-> h.st, r |-> h.r, m |-> m]
       ELSE self_eval_entries(Tail(entries), [m EXCEPT ![Head(entries)[1]] = h.v], h.st)

exec_block_inner(block, st) ==
  IF block = <<>> THEN Done(st, Ok)
  ELSE LET h == self_exec_stmt(Head(block), st) IN
       IF ~IsOk(h.r) THEN h ELSE self_exec_block_inner(Tail(block), h.st)

exec_block(block, st) ==
  LET result == self_exec_block_inner(block, [st EXCEPT !.env = child(st.env)]) IN
  Done([result.st EXCEPT !.env = into_parent(result.st.env)], result.r)

bind_params(params, args, i, st) ==
  IF i > Len(params) THEN Done(st, Ok)
  ELSE IF i <= Len(args)
  THEN self_bind_params(params, args, i + 1,
                   [st EXCEPT !.env = set(st.env, params[i].name, args[i])])
  ELSE IF params[i].default.some
  THEN LET d == self_eval_expr(params[i].default.x, st) IN
       IF ~IsOk(d.r) THEN Done(d.st, d.r)
       ELSE self_bind_params(params, args, i + 1,
                        [d.st EXCEPT !.env = set(d.st.env, params[i].name, d.v)])
  ELSE Done(st, Err("ArgCountMismatch"))

call_closure(params, body, args, captured_env, st) ==
  LET caller_env == st.env
      bound == self_bind_params(params, args, 1,
                           [st EXCEPT !.env = closure_scope(captured_env, caller_env)])
  IN  IF ~IsOk(bound.r) THEN Fail(bound.st, bound.r)
      ELSE LET result == self_exec_block_inner(body, bound.st)
               cr == closure_result(result.r)
           IN  [st |-> [result.st EXCEPT !.env = caller_env], r |-> cr.r, v |-> cr.v]

\* Vec::remove
remove(items, index) == SubSeq(items, 1, index) \o SubSeq(items, index + 2, Len(items))

\* "extend": the guard of the list, then the guard of the items, and a
\* push for each item.
extend(args, st) ==
  IF Len(args) = 2 /\ args[1].t = "list" /\ args[2].t = "list"
  THEN IF lock_held(st, args[1].v) THEN Fail(st, Err("Relock"))
       ELSE IF args[2].v = args[1].v \/ lock_held(st, args[2].v) THEN Fail(st, Err("Relock"))
       ELSE LET guard == st.heap[args[1].v].items
                items_guard == st.heap[args[2].v].items
            IN  IF Len(guard) + Len(items_guard) > MaxLen THEN Ret(Overflow(st), Null)
                ELSE Ret([st EXCEPT !.heap[args[1].v].items = guard \o items_guard], Null)
  ELSE Fail(st, Err("TypeMismatch"))

\* "update": the guard of the map, then the guard of the other, and an
\* insert for each entry.
update(args, st) ==
  IF Len(args) = 2 /\ args[1].t = "dict" /\ args[2].t = "dict"
  THEN IF lock_held(st, args[1].v) THEN Fail(st, Err("Relock"))
       ELSE IF args[2].v = args[1].v \/ lock_held(st, args[2].v) THEN Fail(st, Err("Relock"))
       ELSE LET guard == st.heap[args[1].v].map
                other_guard == st.heap[args[2].v].map
            IN  Ret([st EXCEPT !.heap[args[1].v].map =
                       [k \in Keys |-> IF other_guard[k] # Undef THEN other_guard[k]
                                       ELSE guard[k]]], Null)
  ELSE Fail(st, Err("TypeMismatch"))

\* The first "pop" arm of call_function's match: pop(list, index?).
pop_list(args, st) ==
  IF Len(args) >= 1 /\ args[1].t = "list"
  THEN IF lock_held(st, args[1].v) THEN Fail(st, Err("Relock"))
       ELSE LET guard == st.heap[args[1].v].items IN
            IF guard = <<>> THEN Fail(st, Err("GenericError"))
            ELSE IF Len(args) >= 2 /\ args[2].t # "int" THEN Fail(st, Err("TypeMismatch"))
            ELSE LET index == IF Len(args) >= 2
                              THEN IF args[2].v < 0
                                   THEN (IF Len(guard) + args[2].v < 0 THEN 0
                                         ELSE Len(guard) + args[2].v)
                                   ELSE args[2].v
                              ELSE Len(guard) - 1
                 IN  IF index >= Len(guard) THEN Fail(st, Err("GenericError"))
                     ELSE Ret([st EXCEPT !.heap[args[1].v].items = remove(guard, index)],
                              guard[index + 1])
  ELSE Fail(st, Err("TypeMismatch"))

\* The second "pop" arm of the same match: pop(dict, key, default?).
pop_dict(args, st) ==
  IF Len(args) >= 2 /\ args[1].t = "dict"
  THEN IF lock_held(st, args[1].v) THEN Fail(st, Err("Relock"))
       ELSE LET guard == st.heap[args[1].v].map IN
            IF args[2].t # "string" THEN Fail(st, Err("TypeMismatch"))
            ELSE IF args[2].v \in Keys /\ guard[args[2].v] # Undef
            THEN Ret([st EXCEPT !.heap[args[1].v].map[args[2].v] = Undef], guard[args[2].v])
            ELSE IF Len(args) >= 3 THEN Ret(st, args[3])
            ELSE Fail(st, Err("GenericError"))
  ELSE Fail(st, Err("TypeMismatch"))

\* The arms of call_function's match whose pattern is "pop", in the order
\* of the source; a match runs the first arm whose pattern fits.
pop_arms(args, st) == <<pop_list(args, st), pop_dict(args, st)>>

call_function(name, args, st) ==
  CASE name = "print" ->
         IF Len(args) >= 1 THEN Ret(print(st, args[1]), Null) ELSE Ret(st, Null)
    [] name = "len" ->
         IF Len(args) >= 1 /\ args[1].t \in {"list", "dict"} /\ lock_held(st, args[1].v)
         THEN Fail(st, Err("Relock"))
         ELSE IF Len(args) >= 1 /\ args[1].t = "list"
         THEN Ret(st, IntV(Len(st.heap[args[1].v].items)))
         ELSE IF Len(args) >= 1 /\ args[1].t = "dict"
         THEN Ret(st, IntV(Cardinality({k \in Keys : st.heap[args[1].v].map[k] # Undef})))
         ELSE IF Len(args) >= 1 /\ args[1].t = "string" THEN Ret(Overflow(st), Null)
         ELSE Fail(st, Err("TypeMismatch"))
    [] name = "push" ->
         IF Len(args) = 2 /\ args[1].t = "list"
         THEN IF lock_held(st, args[1].v) THEN Fail(st, Err("Relock"))
              ELSE IF Len(st.heap[args[1].v].items) >= MaxLen THEN Ret(Overflow(st), Null)
              ELSE Ret([st EXCEPT !.heap = push_cell(st.heap, args[1].v, args[2])], Null)
         ELSE Fail(st, Err("TypeMismatch"))
    [] name = "keys" ->
         IF Len(args) >= 1 /\ args[1].t = "dict"
         THEN IF lock_held(st, args[1].v) THEN Fail(st, Err("Relock"))
              ELSE LET guard == st.heap[args[1].v].map
                       keys == sort(hash_iter(guard, st.hasher))
                   IN  new_list(st, [i \in 1..Len(keys) |-> StrV(keys[i])])
         ELSE Fail(st, Err("TypeMismatch"))
    [] name = "values" ->
         IF Len(args) >= 1 /\ args[1].t = "dict"
         THEN IF lock_held(st, args[1].v) THEN Fail(st, Err("Relock"))
              ELSE LET guard == st.heap[args[1].v].map
                       sorted_keys == sort(hash_iter(guard, st.hasher))
                   IN  new_list(st, [i \in 1..Len(sorted_keys) |-> guard[sorted_keys[i]]])
         ELSE Fail(st, Err("TypeMismatch"))
    [] name = "extend" -> extend(args, st)
    [] name = "pop" -> pop_arms(args, st)[1]
    [] name = "update" -> update(args, st)
    [] name = "range" ->
         IF Len(args) = 2
         THEN IF args[1].t # "int" \/ args[2].t # "int" THEN Fail(st, Err("TypeMismatch"))
              ELSE new_list(st, range_items(args[1].v, args[2].v))
         ELSE Fail(st, Err("ArgCountMismatch"))
    [] OTHER ->
         LET func == get(st.env, name) IN
         IF func.t = "fn"
         THEN self_call_closure(st.fns[func.v].params, st.fns[func.v].body, args,
                           st.fns[func.v].captured_env, st)
         ELSE Fail(st, Err("UndefinedFunction"))

listcomp_items(body, var, items, acc, st) ==
  IF items = <<>> THEN new_list(st, acc)
  ELSE LET st1 == [st EXCEPT !.env = set(child(st.env), var, Head(items))]
           val == self_eval_expr(body, st1)
       IN  IF ~IsOk(val.r) THEN Fail(val.st, val.r)
           ELSE self_listcomp_items(body, var, Tail(items), Append(acc, val.v),
                               [val.st EXCEPT !.env = into_parent(val.st.env)])

\* Value::as_int on an evaluated operand.
as_int(val) ==
  IF ~IsOk(val.r) THEN val
  ELSE IF val.v.t # "int" THEN Fail(val.st, Err("TypeMismatch"))
  ELSE val

\* Expr::Range
eval_range(expr, st) ==
  LET s == as_int(self_eval_expr(expr.start, st)) IN
  IF ~IsOk(s.r) THEN s
  ELSE LET e == as_int(self_eval_expr(expr.end, s.st)) IN
       IF ~IsOk(e.r) THEN e
       ELSE new_list(e.st, range_items(s.v.v, e.v.v))

\* as_int of an evaluated slice bound, negative counted from the end:
\* `if s_int < 0 { len + s_int } else { s_int }`.
slice_bound(b, len) ==
  IF ~IsOk(b.r) THEN b
  ELSE IF b.v.t # "int" THEN Fail(b.st, Err("TypeMismatch"))
  ELSE Ret(b.st, IntV(IF b.v.v < 0 THEN len + b.v.v ELSE b.v.v))

\* `.max(0).min(len) as usize`
clamp(n, len) == IF n < 0 THEN 0 ELSE IF n > len THEN len ELSE n

\* Expr::Slice. The guard of the list is taken before the bounds are
\* evaluated and dropped when the arm is left, by a value or by `?`.
eval_slice(expr, st) ==
  LET list_val == self_eval_expr(expr.expr, st) IN
  IF ~IsOk(list_val.r) THEN list_val
  ELSE IF list_val.v.t # "list" THEN Fail(list_val.st, Err("TypeMismatch"))
  ELSE IF lock_held(list_val.st, list_val.v.v) THEN Fail(list_val.st, Err("Relock"))
  ELSE LET h == list_val.v.v
           guard == list_val.st.heap[h].items
           len == Len(guard)
           locked == [list_val.st EXCEPT !.heap[h].owner = Held]
           unlock(x) == [x EXCEPT !.st.heap[h].owner = 0]
           start == IF expr.start.some
                    THEN slice_bound(self_eval_expr(expr.start.x, locked), len)
                    ELSE Ret(locked, IntV(0))
       IN  IF unwinds(start.r) THEN start
           ELSE IF ~IsOk(start.r) THEN unlock(start)
           ELSE LET end == IF expr.end.some
                           THEN slice_bound(self_eval_expr(expr.end.x, start.st), len)
                           ELSE Ret(start.st, IntV(len))
                IN  IF unwinds(end.r) THEN end
                    ELSE IF ~IsOk(end.r) THEN unlock(end)
                    ELSE LET start_idx == clamp(start.v.v, len)
                             end_idx == clamp(end.v.v, len)
                         IN  \* guard[start_idx..end_idx] panics when the
                             \* range starts after its end
                             IF start_idx > end_idx THEN Fail(end.st, Err("Panic"))
                             ELSE unlock(new_list(end.st,
                                            SubSeq(guard, start_idx + 1, end_idx)))

eval_expr(expr, st) ==
  CASE expr.k = "Int" -> Ret(st, IntV(expr.n))
    [] expr.k = "Float" -> Ret(st, FloatV(expr.halves))
    [] expr.k = "Bool" -> Ret(st, BoolV(expr.b))
    [] expr.k = "Null" -> Ret(st, Null)
    [] expr.k = "Str" -> Ret(st, StrV(expr.s))
    [] expr.k = "List" ->
         LET items == self_eval_list(expr.items, st) IN
         IF ~IsOk(items.r) THEN Fail(items.st, items.r) ELSE new_list(items.st, items.vs)
    [] expr.k = "Map" ->
         LET m == self_eval_entries(expr.entries, EmptyMap, st) IN
         IF ~IsOk(m.r) THEN Fail(m.st, m.r) ELSE new_map(m.st, m.m)
    [] expr.k = "Fn" ->
         fn_value(st, [params |-> expr.params, body |-> expr.body,
                       captured_env |-> Some(st.env)])
    [] expr.k = "Ident" ->
         IF get(st.env, expr.name) = Undef THEN Fail(st, Err("UndefinedVariable"))
         ELSE value_clone(get(st.env, expr.name), st)
    [] expr.k = "BinOp" ->
         LET l == self_eval_expr(expr.left, st) IN
         IF ~IsOk(l.r) THEN l
         ELSE LET r == self_eval_expr(expr.right, l.st) IN
              IF ~IsOk(r.r) THEN r ELSE self_eval_binop(expr.op, l.v, r.v, r.st)
    [] expr.k = "Call" ->
         LET evaluated == self_eval_list(expr.args, st) IN
         IF ~IsOk(evaluated.r) THEN Fail(evaluated.st, evaluated.r)
         ELSE self_call_function(expr.name, evaluated.vs, evaluated.st)
    [] expr.k = "Index" ->
         LET container == self_eval_expr(expr.expr, st) IN
         IF ~IsOk(container.r) THEN container
         ELSE LET idx == self_eval_expr(expr.index, container.st) IN
              IF ~IsOk(idx.r) THEN idx ELSE index_read(container.v, idx.v, idx.st)
    [] expr.k = "OrDefault" ->
         LET val == self_eval_expr(expr.expr, st) IN
         IF IsOk(val.r) \/ unwinds(val.r) THEN val
         ELSE self_eval_expr(expr.default, val.st)
    [] expr.k = "Slice" -> eval_slice(expr, st)
    [] expr.k = "Range" -> eval_range(expr, st)
    [] expr.k = "ListComp" ->
         LET iterable == self_eval_expr(expr.iter, st) IN
         IF ~IsOk(iterable.r) THEN iterable
         ELSE LET items == into_list(iterable.v, iterable.st) IN
              IF ~IsOk(items.r) THEN Fail(iterable.st, items.r)
              ELSE self_listcomp_items(expr.body, expr.var, items.items, <<>>, iterable.st)
    [] OTHER -> Ret(Overflow(st), Null)

for_items(var, body, items, st) ==
  IF items = <<>> THEN Done(st, Ok)
  ELSE LET result == self_exec_block_inner(body,
                       [st EXCEPT !.env = set(child(st.env), var, Head(items))])
       IN  IF ~IsOk(result.r) THEN result
           ELSE self_for_items(var, body, Tail(items),
                          [result.st EXCEPT !.env = into_parent(result.st.env)])

\* One pass of Stmt::While's `loop`; fuel bounds the iterations of the model.
while_loop(cond, body, st, fuel) ==
  LET val == self_eval_expr(cond, st) IN
  IF ~IsOk(val.r) THEN Done(val.st, val.r)
  ELSE IF ~is_truthy(val.v) THEN Done(val.st, Ok)
  ELSE IF fuel = 0 THEN Done(Overflow(val.st), Ok)
  ELSE LET result == self_exec_block_inner(body, [val.st EXCEPT !.env = child(val.st.env)])
           popped == [result.st EXCEPT !.env = into_parent(result.st.env)]
       IN  CASE loop_result(result.r) = "break" -> Done(popped, Ok)
             [] loop_result(result.r) = "next" ->
                  self_while_loop(cond, body, popped, fuel - 1)
             [] OTHER -> Done(popped, result.r)

exec_try(stmt, st) ==
  LET result == self_exec_block_inner(stmt.body, [st EXCEPT !.env = child(st.env)])
      st2 == [result.st EXCEPT !.env = into_parent(result.st.env)]
  IN  IF unwinds(result.r) THEN result
      ELSE IF ~IsOk(result.r) /\ try_passes(result.r)
      THEN IF stmt.finally_body.some
           THEN Done(self_exec_block_inner(stmt.finally_body.x, st2).st, result.r)
           ELSE Done(st2, result.r)
      ELSE LET catch_result ==
                 IF ~IsOk(result.r)
                 THEN LET res == self_exec_block_inner(stmt.catch_body,
                                   [st2 EXCEPT !.env = set(child(st2.env), stmt.catch_var,
                                                           ErrText(result.r))])
                      IN  Done([res.st EXCEPT !.env = into_parent(res.st.env)], res.r)
                 ELSE Done(st2, Ok)
           IN  IF unwinds(catch_result.r) THEN catch_result
               ELSE IF stmt.finally_body.some
               THEN LET fr == self_exec_block_inner(stmt.finally_body.x,
                                [catch_result.st EXCEPT !.env = child(catch_result.st.env)])
                        st5 == [fr.st EXCEPT !.env = into_parent(fr.st.env)]
                    IN  IF ~IsOk(fr.r) THEN Done(st5, fr.r) ELSE Done(st5, catch_result.r)
               ELSE catch_result

exec_stmt(stmt, st) ==
  CASE stmt.k = "Let" ->
         LET val == self_eval_expr(stmt.value, st) IN
         IF ~IsOk(val.r) THEN Done(val.st, val.r)
         ELSE Done([val.st EXCEPT !.env = set(val.st.env, stmt.name, val.v)], Ok)
    [] stmt.k = "Assign" ->
         LET val == self_eval_expr(stmt.value, st) IN
         IF ~IsOk(val.r) THEN Done(val.st, val.r)
         ELSE LET a == assign(val.st.env, stmt.name, val.v) IN
              Done([val.st EXCEPT !.env = a.env], a.r)
    [] stmt.k = "CompoundAssign" ->
         LET current == get(st.env, stmt.name) IN
         IF current = Undef THEN Done(st, Err("UndefinedVariable"))
         ELSE LET rhs == self_eval_expr(stmt.value, st) IN
              IF ~IsOk(rhs.r) THEN Done(rhs.st, rhs.r)
              ELSE LET result == self_eval_binop(stmt.op, current, rhs.v, rhs.st) IN
                   IF ~IsOk(result.r) THEN Done(result.st, result.r)
                   ELSE LET a == assign(result.st.env, stmt.name, result.v) IN
                        Done([result.st EXCEPT !.env = a.env], a.r)
    [] stmt.k = "IndexAssign" ->
         LET idx == self_eval_expr(stmt.index, st) IN
         IF ~IsOk(idx.r) THEN Done(idx.st, idx.r)
         ELSE LET val == self_eval_expr(stmt.value, idx.st) IN
              IF ~IsOk(val.r) THEN Done(val.st, val.r)
              ELSE IF stmt.target.k = "Ident"
              THEN index_assign(stmt.target.name, idx.v, val.v, val.st)
              ELSE LET container == self_eval_expr(stmt.target, val.st) IN
                   IF ~IsOk(container.r) THEN Done(container.st, container.r)
                   ELSE cell_store(container.v, idx.v, val.v, container.st)
    [] stmt.k = "If" ->
         LET val == self_eval_expr(stmt.cond, st) IN
         IF ~IsOk(val.r) THEN Done(val.st, val.r)
         ELSE IF is_truthy(val.v) THEN exec_block(stmt.then, val.st)
         ELSE IF ~stmt.else_.some THEN Done(val.st, Ok)
         ELSE IF stmt.else_.x.k = "Expr" /\ stmt.else_.x.expr.k = "Fn"
         THEN exec_block(stmt.else_.x.expr.body, val.st)
         ELSE self_exec_stmt(stmt.else_.x, val.st)
    [] stmt.k = "For" ->
         LET val == self_eval_expr(stmt.iter, st) IN
         IF ~IsOk(val.r) THEN Done(val.st, val.r)
         ELSE LET list == into_list(val.v, val.st) IN
              IF ~IsOk(list.r) THEN Done(val.st, list.r)
              ELSE self_for_items(stmt.var, stmt.body, list.items, val.st)
    [] stmt.k = "Fn" ->
         LET val == fn_value(st, [params |-> stmt.params, body |-> stmt.body,
                                  captured_env |-> None])
         IN  Done([val.st EXCEPT !.env = set(val.st.env, stmt.name, val.v)], Ok)
    [] stmt.k = "Return" ->
         LET val == self_eval_expr(stmt.value, st) IN
         IF ~IsOk(val.r) THEN Done(val.st, val.r)
         ELSE Done(val.st, ErrV("ReturnSignal", val.v))
    [] stmt.k = "Try" -> exec_try(stmt, st)
    [] stmt.k = "Stop" ->
         LET val == self_eval_expr(stmt.value, st) IN
         IF ~IsOk(val.r) THEN Done(val.st, val.r)
         ELSE Done(val.st, ErrV("StopSignal", IntV(stop_code(val.v))))
    [] stmt.k = "While" -> self_while_loop(stmt.cond, stmt.body, st, MaxFuel)
    [] stmt.k = "Break" -> Done(st, Err("BreakSignal"))
    [] stmt.k = "Continue" -> Done(st, Err("ContinueSignal"))
    [] stmt.k = "Expr" ->
         LET val == self_eval_expr(stmt.expr, st) IN Done(val.st, val.r)
    [] OTHER -> Done(Overflow(st), Ok)

\* ----------------------------------------------------- semantic analysis
\* SemanticAnalyzer: scopes, a stack of symbol tables; current_fn; errors,
\* the diagnostics pushed so far. ovf: a construct the model leaves out.
Builtins ==
  [n \in {"print", "len", "push", "keys", "values", "range"} |->
     IF n \in {"push", "range"} THEN 2 ELSE 1]
SymNames == Names \cup DOMAIN Builtins

NoSymbol == [kind |-> "none", param_count |-> 0]
variable == [kind |-> "variable", param_count |-> 0]
function(param_count) == [kind |-> "function", param_count |-> param_count]

SemanticAnalyzerNew == [scopes |-> <<>>, current_fn |-> None, errors |-> <<>>, ovf |-> FALSE]

push_scope(an) == [an EXCEPT !.scopes = Append(@, [n \in SymNames |-> NoSymbol])]
\* Vec::pop: nothing happens on an empty stack.
pop_scope(an) == [an EXCEPT !.scopes = SubSeq(@, 1, Len(@) - 1)]
declare(an, name, info) == [an EXCEPT !.scopes[Len(an.scopes)][name] = info]
\* The symbol of the innermost scope that holds name, NoSymbol for None.
resolve(an, name) ==
  LET S == {i \in DOMAIN an.scopes : an.scopes[i][name].kind # "none"} IN
  IF S = {} THEN NoSymbol
  ELSE an.scopes[CHOOSE i \in S : \A j \in S : j <= i][name]
register_builtins(an) ==
  [an EXCEPT !.scopes[Len(an.scopes)] =
     [n \in SymNames |-> IF n \in DOMAIN Builtins THEN function(Builtins[n]) ELSE @[n]]]
\* self.errors.push(e)
errors_push(an, e) == [an EXCEPT !.errors = Append(@, e)]

RECURSIVE declare_params(_, _)
declare_params(an, params) ==
  IF params = <<>> THEN an
  ELSE declare_params(declare(an, Head(params).name, variable), Tail(params))

\* `for s in body { self.check_stmt(s); }`
check_stmts(stmts, an) ==
  IF stmts = <<>> THEN an
  ELSE self_check_stmts(Tail(stmts), self_check_stmt(Head(stmts), an))

\* `for arg in args { self.check_expr(arg); }`
check_exprs(exprs, an) ==
  IF exprs = <<>> THEN an
  ELSE self_check_exprs(Tail(exprs), self_check_expr(Head(exprs), an))

\* The check of a function body: a scope with the parameters, current_fn
\* set for the body and restored after it.
check_fn_body(fn_name, params, body, an) ==
  LET inner == declare_params([push_scope(an) EXCEPT !.current_fn = Some(fn_name)], params)
      done == self_check_stmts(body, inner)
  IN  pop_scope([done EXCEPT !.current_fn = an.current_fn])

\* A block checked in a scope of its own.
check_scoped(stmts, an) == pop_scope(self_check_stmts(stmts, push_scope(an)))

check_stmt(stmt, an) ==
  CASE stmt.k = "Let" -> declare(self_check_expr(stmt.value, an), stmt.name, variable)
    [] stmt.k \in {"Assign", "CompoundAssign"} ->
         self_check_expr(stmt.value,
           IF resolve(an, stmt.name) = NoSymbol
           THEN errors_push(an, ErrV("UndeclaredAssign", stmt.name)) ELSE an)
    [] stmt.k = "IndexAssign" ->
         self_check_expr(stmt.value,
           self_check_expr(stmt.index, self_check_expr(stmt.target, an)))
    [] stmt.k = "Fn" ->
         LET dup == IF resolve(an, stmt.name).kind = "function"
                    THEN errors_push(an, ErrV("DuplicateFn", stmt.name)) ELSE an
         IN  check_fn_body(stmt.name, stmt.params, stmt.body,
                           declare(dup, stmt.name, function(Len(stmt.params))))
    [] stmt.k = "Return" ->
         IF ~an.current_fn.some THEN errors_push(an, Err("ReturnOutsideFn"))
         ELSE self_check_expr(stmt.value, an)
    [] stmt.k = "If" ->
         LET then == check_scoped(stmt.then, self_check_expr(stmt.cond, an)) IN
         IF ~stmt.else_.some THEN then
         ELSE IF stmt.else_.x.k = "Expr" /\ stmt.else_.x.expr.k = "Fn"
         THEN check_scoped(stmt.else_.x.expr.body, then)
         ELSE check_scoped(<<stmt.else_.x>>, then)
    [] stmt.k = "For" ->
         LET iter == self_check_expr(stmt.iter, an) IN
         pop_scope(self_check_stmts(stmt.body, declare(push_scope(iter), stmt.var, variable)))
    [] stmt.k = "Try" ->
         LET body == check_scoped(stmt.body, an)
             catch == pop_scope(self_check_stmts(stmt.catch_body,
                        declare(push_scope(body), stmt.catch_var, variable)))
         IN  IF stmt.finally_body.some THEN check_scoped(stmt.finally_body.x, catch)
             ELSE catch
    [] stmt.k = "Stop" -> self_check_expr(stmt.value, an)
    [] stmt.k = "While" -> check_scoped(stmt.body, self_check_expr(stmt.cond, an))
    [] stmt.k \in {"Break", "Continue"} -> an
    [] stmt.k = "Expr" -> self_check_expr(stmt.expr, an)
    [] OTHER -> [an EXCEPT !.ovf = TRUE]

\* The arity test of a call of name with found arguments.
check_arity(name, found, an) ==
  LET info == resolve(an, name) IN
  IF info.kind = "function" /\ found # info.param_count
  THEN errors_push(an, ErrV("ArgCountMismatch", <<name, info.param_count, found>>))
  ELSE an

check_expr(expr, an) ==
  CASE expr.k = "Ident" ->
         IF resolve(an, expr.name) = NoSymbol
         THEN errors_push(an, ErrV("UndefinedVariable", expr.name)) ELSE an
    [] expr.k = "Call" ->
         self_check_exprs(expr.args,
           IF resolve(an, expr.name) = NoSymbol
           THEN errors_push(an, ErrV("UndefinedFunction", expr.name))
           ELSE check_arity(expr.name, Len(expr.args), an))
    [] expr.k = "BinOp" -> self_check_expr(expr.right, self_check_expr(expr.left, an))
    [] expr.k = "OrDefault" -> self_check_expr(expr.default, self_check_expr(expr.expr, an))
    [] expr.k = "Index" -> self_check_expr(expr.index, self_check_expr(expr.expr, an))
    [] expr.k = "Range" -> self_check_expr(expr.end, self_check_expr(expr.start, an))
    [] expr.k = "Pipe" -> self_check_pipe_func(expr.func, self_check_expr(expr.expr, an))
    [] expr.k = "List" -> self_check_exprs(expr.items, an)
    [] expr.k = "Map" ->
         self_check_exprs([i \in 1..Len(expr.entries) |-> expr.entries[i][2]], an)
    [] expr.k = "Fn" -> check_fn_body("<anonymous>", expr.params, expr.body, an)
    [] expr.k = "ListComp" ->
         LET iter == self_check_expr(expr.iter, an) IN
         pop_scope(self_check_expr(expr.body, declare(push_scope(iter), expr.var, variable)))
    [] expr.k = "Slice" ->
         LET e == self_check_expr(expr.expr, an)
             s == IF expr.start.some THEN self_check_expr(expr.start.x, e) ELSE e
         IN  IF expr.end.some THEN self_check_expr(expr.end.x, s) ELSE s
    [] expr.k \in {"Int", "Float", "Bool", "Str", "Null"} -> an
    [] OTHER -> [an EXCEPT !.ovf = TRUE]

\* The target of a pipe: the call gets one implicit argument; nothing is
\* pushed when its name does not resolve to a function.
check_pipe_func(func, an) ==
  CASE func.k = "Call" ->
         self_check_exprs(func.args,
           IF resolve(an, func.name).kind = "function"
           THEN check_arity(func.name, Len(func.args) + 1, an) ELSE an)
    [] func.k = "OrDefault" ->
         self_check_expr(func.default, self_check_pipe_func(func.expr, an))
    [] OTHER -> self_check_expr(func, an)

self(call, st) ==
  CASE call.m = "eval_expr" -> eval_expr(call.a[1], st)
    [] call.m = "eval_list" -> eval_list(call.a[1], st)
    [] call.m = "eval_binop" -> eval_binop(call.a[1], call.a[2], call.a[3], st)
    [] call.m = "eval_entries" -> eval_entries(call.a[1], call.a[2], st)
    [] call.m = "exec_stmt" -> exec_stmt(call.a[1], st)
    [] call.m = "exec_block_inner" -> exec_block_inner(call.a[1], st)
    [] call.m = "call_function" -> call_function(call.a[1], call.a[2], st)
    [] call.m = "call_closure" -> call_closure(call.a[1], call.a[2], call.a[3], call.a[4], st)
    [] call.m = "bind_params" -> bind_params(call.a[1], call.a[2], call.a[3], st)
    [] call.m = "for_items" -> for_items(call.a[1], call.a[2], call.a[3], st)
    [] call.m = "while_loop" -> while_loop(call.a[1], call.a[2], st, call.a[3])
    [] call.m = "listcomp_items" -> listcomp_items(call.a[1], call.a[2], call.a[3], call.a[4], st)
    [] call.m = "check_stmt" -> check_stmt(call.a[1], st)
    [] call.m = "check_stmts" -> check_stmts(call.a[1], st)
    [] call.m = "check_expr" -> check_expr(call.a[1], st)
    [] call.m = "check_exprs" -> check_exprs(call.a[1], st)
    [] call.m = "check_pipe_func" -> check_pipe_func(call.a[1], st)

\* ------------------------------------------------- dropped storage cells
\* A cell lives as long as an Arc to it does: a cell that no frame, no
\* captured chain and no live cell refers to is freed.
HandlesOf(vals) == {val.v : val \in {w \in vals : w.t \in {"list", "dict"}}}
FrameVals(chain) == {chain[d][n] : d \in 1..Len(chain), n \in Names}
CellRefs(cell) ==
  HandlesOf({cell.items[i] : i \in 1..Len(cell.items)} \cup {cell.map[k] : k \in Keys})
FnRoots(table) ==
  UNION {IF table[i].captured_env.some THEN FrameVals(table[i].captured_env.x) ELSE {} :
         i \in 1..Len(table)}

RECURSIVE Reach(_, _)
Reach(cells, hs) ==
  LET more == hs \cup UNION {CellRefs(cells[h]) : h \in hs} IN
  IF more = hs THEN hs ELSE Reach(cells, more)

arc_drop(cells, roots) ==
  [h \in DOMAIN cells |-> IF h \in Reach(cells, HandlesOf(roots)) THEN cells[h] ELSE FreeCell]

\* ----------------------------------------------------------------- state
VARIABLES
  env,        \* the main interpreter's scope chain
  heap,       \* the storage cells of lists and maps
  fns,        \* the function values
  out,        \* what the last statement printed
  last,       \* the result of the last statement
  stmt,       \* the last statement executed
  status,     \* "running", or "exited" once run returned
  exit_code,  \* the process exit code
  expect,     \* the contents the aliased list must have
  expectM,    \* the contents the aliased map must have
  handles,    \* the expressions that denote the aliased list
  handlesM,   \* the expressions that denote the aliased map
  captured,   \* the value of x when the closure f was created
  phase,      \* "par" while the main thread waits in a parallel statement
  ctx,        \* what encloses the parallel statement: "top", "fn" or "while"
  pstmt,      \* the parallel statement
  penv,       \* env_snapshot: the clone of the scope chain at parallel entry
  workers,    \* one record for each item of the parallel statement
  finished,   \* the workers in the order they completed
  passes,     \* how many times the enclosing loop started its body
  hasher,     \* the order in which the process's HashMaps iterate their keys
  sem,        \* the semantic pass: its analyzer and the statements it has checked
  lex,        \* the lexer: its input, its position and the tokens it has pushed
  stderr      \* the diagnostics main has printed, each a sequence of lines

core == <<env, heap, fns, out, last, stmt, status, exit_code>>
ghosts == <<expect, expectM, handles, handlesM, captured>>
front == <<lex, stderr>>
pvars == <<phase, ctx, pstmt, penv, workers, finished, passes, hasher, sem, lex, stderr>>
vars == <<env, heap, fns, out, last, stmt, status, exit_code,
          expect, expectM, handles, handlesM, captured,
          phase, ctx, pstmt, penv, workers, finished, passes, hasher, sem, lex, stderr>>

NoStmt == [k |-> "None"]
\* No lexer has been constructed.
NoLexer == [phase |-> "none"]

Init ==
  /\ env = EnvNew
  /\ heap = EmptyHeap
  /\ fns = <<>>
  /\ out = <<>>
  /\ last = Ok
  /\ stmt = NoStmt
  /\ status = "running"
  /\ exit_code = 0
  /\ expect = <<>>
  /\ expectM = EmptyMap
  /\ handles = {}
  /\ handlesM = {}
  /\ captured = Undef
  /\ phase = "idle"
  /\ ctx = "top"
  /\ pstmt = NoStmt
  /\ penv = EnvNew
  /\ workers = <<>>
  /\ finished = <<>>
  /\ passes = 0
  /\ hasher = <<1, 2, 3>>
  /\ sem = [phase |-> "new", an |-> SemanticAnalyzerNew, program |-> <<>>]
  /\ lex = NoLexer
  /\ stderr = <<>>

\* The evaluator state of the main interpreter.
Cur == [env |-> env, heap |-> heap, fns |-> fns, out |-> <<>>, ovf |-> FALSE,
        hasher |-> hasher]

\* main (Command::Run): `stop N` exits with N, any other error with 1.
exit_status(r) ==
  IF r.kind = "StopSignal" THEN r.v.v ELSE IF IsOk(r) THEN 0 ELSE 1

\* What becomes of the process after a statement: it goes on, main exits
\* with the error's code, a panic ends it, or a lock taken twice by the one
\* thread ends it by a panic or leaves it blocked.
process_status(r) ==
  CASE IsOk(r) -> {"running"}
    [] r.kind = "Panic" -> {"panicked"}
    [] r.kind = "Relock" -> {"panicked", "hung"}
    [] OTHER -> {"exited"}

\* One iteration of Interpreter::run's loop: `self.exec_stmt(stmt)?`, and
\* main's exit when it returns an error.
Exec(s) ==
  /\ status = "running"
  /\ phase = "idle"
  /\ \E res \in {self_exec_stmt(s, Cur)} :
     /\ ~res.st.ovf
     /\ Len(res.st.env) <= MaxDepth
     /\ env' = res.st.env
     /\ heap' = arc_drop(res.st.heap, FrameVals(res.st.env) \cup FnRoots(res.st.fns))
     /\ fns' = res.st.fns
     /\ out' = res.st.out
     /\ last' = res.r
     /\ stmt' = s
     /\ status' \in process_status(res.r)
     /\ exit_code' = CASE status' = "panicked" -> 101  \* a panic of the main thread
                        [] status' = "hung" -> exit_code
                        [] OTHER -> exit_status(res.r)

\* A statement of a program that is run without its analysis.
Step(s) == Exec(s) /\ UNCHANGED pvars

\* ------------------------------------------------ programs over one list
\* Programs that bind one list and one map to several names, store the list
\* in another list, pass it to a function, and mutate it through any handle.
Bound(name) == get(env, name) # Undef

NewList ==
  \E items \in {<<>>, <<EInt(1)>>} :
    /\ ~Bound("a")
    /\ Step(SLet("a", EList(items)))
    /\ expect' = [i \in 1..Len(items) |-> IntV(items[i].n)]
    /\ handles' = {EIdent("a")}
    /\ UNCHANGED <<expectM, handlesM, captured>>

BindList ==
  \E p \in handles :
    /\ ~Bound("b")
    /\ Step(SLet("b", p))
    /\ handles' = handles \cup {EIdent("b")}
    /\ UNCHANGED <<expect, expectM, handlesM, captured>>

NestList ==
  \E p \in handles :
    /\ ~Bound("c")
    /\ Step(SLet("c", EList(<<p>>)))
    /\ handles' = handles \cup {EIndex(EIdent("c"), EInt(0))}
    /\ UNCHANGED <<expect, expectM, handlesM, captured>>

PushList ==
  \E p \in handles, n \in {1} :
    /\ Step(SExpr(ECall("push", <<p, EInt(n)>>)))
    /\ expect' = Append(expect, IntV(n))
    /\ UNCHANGED <<expectM, handles, handlesM, captured>>

StoreList ==
  \E p \in handles, i \in {0, 1}, n \in {0} :
    /\ Step(SIndexAssign(p, EInt(i), EInt(n)))
    /\ expect' = IF i < Len(expect) THEN [expect EXCEPT ![i + 1] = IntV(n)] ELSE expect
    /\ UNCHANGED <<expectM, handles, handlesM, captured>>

DeclPusher ==
  /\ ~Bound("f")
  /\ Step(SFn("f", <<Param("l")>>, <<SExpr(ECall("push", <<EIdent("l"), EInt(1)>>))>>))
  /\ UNCHANGED ghosts

CallPusher ==
  \E p \in handles :
    /\ Bound("f")
    /\ Step(SExpr(ECall("f", <<p>>)))
    /\ expect' = Append(expect, IntV(1))
    /\ UNCHANGED <<expectM, handles, handlesM, captured>>

NewMap ==
  \E n \in {0} :
    /\ ~Bound("x")
    /\ Step(SLet("x", EMap(<<<<1, EInt(n)>>>>)))
    /\ expectM' = [EmptyMap EXCEPT ![1] = IntV(n)]
    /\ handlesM' = {EIdent("x")}
    /\ UNCHANGED <<expect, handles, captured>>

BindMap ==
  \E p \in handlesM :
    /\ ~Bound("y")
    /\ Step(SLet("y", p))
    /\ handlesM' = handlesM \cup {EIdent("y")}
    /\ UNCHANGED <<expect, expectM, handles, captured>>

StoreMap ==
  \E p \in handlesM, key \in {2}, n \in {1} :
    /\ Step(SIndexAssign(p, EStr(key), EInt(n)))
    /\ expectM' = [expectM EXCEPT ![key] = IntV(n)]
    /\ UNCHANGED <<expect, handles, handlesM, captured>>

AliasNext ==
  \/ NewList \/ BindList \/ NestList \/ PushList \/ StoreList
  \/ DeclPusher \/ CallPusher \/ NewMap \/ BindMap \/ StoreMap

AliasSpec == Init /\ [][AliasNext]_vars

\* What a program reads through the expression p: len(p) and every p[i].
ReadLen(p) == self_eval_expr(ECall("len", <<p>>), Cur)
ReadAt(p, i) == self_eval_expr(EIndex(p, i), Cur)

SeesList(p) ==
  /\ IsOk(ReadLen(p).r)
  /\ ReadLen(p).v = IntV(Len(expect))
  /\ \A i \in 1..Len(expect) :
       IsOk(ReadAt(p, EInt(i - 1)).r) /\ ReadAt(p, EInt(i - 1)).v = expect[i]

SeesMap(p) ==
  \A key \in Keys :
    IF expectM[key] = Undef THEN ReadAt(p, EStr(key)).r.kind = "KeyNotFound"
    ELSE IsOk(ReadAt(p, EStr(key)).r) /\ ReadAt(p, EStr(key)).v = expectM[key]

\* C6: every handle to the list (a second name, an element of another list,
\* whatever handle the last push or index-assign went through) reads the
\* contents that all the mutations together produced, and so does every
\* handle to the map.
C6_SharedCell == (\A p \in handles : SeesList(p)) /\ (\A p \in handlesM : SeesMap(p))

\* A nested index-assign c[0][j] = v has succeeded while the list has three
\* handles, and a store through the second name of the map has.
C6_Witness_NestedStore ==
  /\ Cardinality(handles) = 3
  /\ stmt.k = "IndexAssign"
  /\ stmt.target.k = "Index"
  /\ IsOk(last)
  /\ Cardinality(handlesM) = 2
  /\ expectM[2] # Undef

\* ---------------------------------------------- programs over one closure
\* Programs that declare and assign the scalar x, create the closure
\* f := fn() { return x }, and call it from the top level and from a block
\* that shadows x.
ReturnX == <<SReturn(EIdent("x"))>>
CallF == ECall("f", <<>>)

LetX ==
  \E n \in 0..2 :
    /\ Step(SLet("x", EInt(n)))
    /\ UNCHANGED ghosts

AssignX ==
  \E n \in 0..2 :
    /\ Bound("x")
    /\ Step(SAssign("x", EInt(n)))
    /\ UNCHANGED ghosts

MakeClosure ==
  /\ Bound("x")
  /\ Step(SLet("f", EFn(<<>>, ReturnX)))
  /\ captured' = get(env, "x")
  /\ UNCHANGED <<expect, expectM, handles, handlesM>>

CallClosure ==
  /\ Bound("f")
  /\ Step(SLet("y", CallF))
  /\ UNCHANGED ghosts

CallShadowed ==
  \E n \in 0..2 :
    /\ Bound("f")
    /\ Step(SIf(EInt(1), <<SLet("x", EInt(n)), SExpr(ECall("print", <<CallF>>))>>, None))
    /\ UNCHANGED ghosts

ClosureNext == LetX \/ AssignX \/ MakeClosure \/ CallClosure \/ CallShadowed

ClosureSpec == Init /\ [][ClosureNext]_vars

\* C7: every call of the closure f returns the value x had when f was
\* created, whatever `x = v` and `x := v` ran in between and whatever x the
\* calling block declares: y := f() binds y to it and print(f()) prints it.
C7_ClosureSnapshot ==
  /\ (stmt = SLet("y", CallF)) => (IsOk(last) /\ get(env, "y") = captured)
  /\ (stmt.k = "If") => (IsOk(last) /\ out = <<Render(captured, heap)>>)

\* The closure was called after x was given another value than the one it
\* had when the closure was created.
C7_Witness_StaleX ==
  /\ stmt = SLet("y", CallF)
  /\ captured # Undef
  /\ get(env, "x") # captured
  /\ get(env, "y") = captured

\* ------------------------------------------------- programs over blocks
\* Programs whose top level declares only x := 1 and the function f(a), and
\* whose blocks declare y, l and a shadowing x with `:=`, some of them
\* failing inside the block with a division by zero.
Div0 == EBin("Div", EInt(1), EInt(0))
One == EList(<<EInt(1)>>)
Shadow == <<SLet("x", EInt(2)), SLet("y", EInt(1))>>
Failing == <<SLet("y", EInt(1)), SLet("l", Div0)>>
FailingFor == <<SLet("x", EInt(2)), SFor("i", One, <<SLet("y", Div0)>>)>>
Bodies == {Shadow, Failing, FailingFor}
Say(n) == <<SExpr(ECall("print", <<EInt(n)>>))>>
TryStop(n) == STry(<<SStop(EInt(n))>>, "e", Say(1), Some(Say(2)))

LetOuter ==
  /\ Step(SLet("x", EInt(1)))
  /\ UNCHANGED ghosts

IfBlock ==
  \E B \in Bodies, c \in {0, 1} :
    /\ Step(SIf(EInt(c), B, ElseBlock(B)))
    /\ UNCHANGED ghosts

WhileBlock ==
  \E B \in Bodies :
    /\ Step(SWhile(EInt(1), B \o <<SBreak>>))
    /\ UNCHANGED ghosts

ForBlock ==
  \E B \in Bodies :
    /\ Step(SFor("i", One, B))
    /\ UNCHANGED ghosts

TryBlock ==
  \E B \in Bodies, fin \in {None, Some(<<SLet("y", EInt(1))>>)} :
    /\ Step(STry(B, "e", <<SLet("y", EInt(1))>>, fin))
    /\ UNCHANGED ghosts

DeclFn ==
  \E B \in {Shadow, Failing} :
    /\ ~Bound("f")
    /\ Step(SFn("f", <<Param("a")>>, B))
    /\ UNCHANGED ghosts

CallFn ==
  \E args \in {<<>>, <<EInt(0)>>} :
    /\ Bound("f")
    /\ Step(SExpr(ECall("f", args)))
    /\ UNCHANGED ghosts

CallOr ==
  /\ Bound("f")
  /\ Step(SExpr(EOr(CallF, EInt(0))))
  /\ UNCHANGED ghosts

ListCompOr ==
  \E body \in {Div0, EInt(1)} :
    /\ Step(SExpr(EOr(EListComp(body, "i", One), EInt(0))))
    /\ UNCHANGED ghosts

StopTop ==
  \E n \in 2..3 :
    /\ Step(SStop(EInt(n)))
    /\ UNCHANGED ghosts

StopInTry ==
  \E n \in 2..3 :
    /\ Step(TryStop(n))
    /\ UNCHANGED ghosts

ScopeNext ==
  \/ LetOuter \/ IfBlock \/ WhileBlock \/ ForBlock \/ TryBlock
  \/ DeclFn \/ CallFn \/ CallOr \/ ListCompOr \/ StopTop \/ StopInTry

ScopeSpec == Init /\ [][ScopeNext]_vars

\* C8: between two top-level statements, the names that only blocks
\* declare (y, l, i, e, a) do not resolve, and x, which blocks only shadow
\* with `:=`, is unbound or has the value 1 of its top-level declaration.
C8_BlockLocal ==
  status = "running" =>
    /\ \A n \in {"y", "l", "i", "e", "a"} : get(env, n) = Undef
    /\ get(env, "x") \in {Undef, IntV(1)}

\* C9: between two top-level statements, whatever errors were caught by a
\* try/catch or suppressed by `or` inside the statements executed so far,
\* the scope chain is the global frame alone.
C9_ScopesTornDown == status = "running" => Len(env) = 1

\* C10: after try { stop N } catch e { print(1) } finally { print(2) } the
\* handler has printed nothing, the finally block has printed 2, and the
\* stop signal has left the statement: the process exits with code N.
C10_StopLeavesTry ==
  \A n \in 2..3 :
    stmt = TryStop(n) =>
      /\ out = <<Render(IntV(2), heap)>>
      /\ last = ErrV("StopSignal", IntV(n))
      /\ status = "exited"
      /\ exit_code = n

\* ------------------------------------------------- the parallel statement
\* A lock that never waits.
lock_ignored(cell) == TRUE

\* Mutex::lock on a cell returns when no thread holds the cell's guard.
lock_free(cell) == cell.owner = 0

\* A collect that returns as soon as one item was mapped to an error.
collect_short(ws) ==
  \/ \A i \in DOMAIN ws : ws[i].state = "done"
  \/ \E i \in DOMAIN ws : ws[i].state = "done" /\ ~IsOk(ws[i].res)

\* `.collect()` into Vec<Result<..>> returns once every item was mapped.
collect_ready(ws) == \A i \in DOMAIN ws : ws[i].state = "done"

\* The error of the erroring worker that completed first.
first_finished_error(ws, order) ==
  LET failed == {k \in DOMAIN order : ~IsOk(ws[order[k]].res)} IN
  IF failed = {} THEN Ok
  ELSE ws[order[CHOOSE k \in failed : \A m \in failed : k <= m]].res

\* `for result in results { if let Err(e) = result { return Err(e) } }`:
\* results holds the workers' results in the order of the items.
first_error(ws, order) ==
  LET failed == {i \in DOMAIN ws : ~IsOk(ws[i].res)} IN
  IF failed = {} THEN Ok
  ELSE ws[CHOOSE i \in failed : \A j \in failed : i <= j].res

\* A join that takes over the chain the last worker ran on.
join_env_last(cur, ws) ==
  IF ws = <<>> THEN cur ELSE into_parent(ws[Len(ws)].env)

\* self.env after the parallel statement: the workers ran on clones of
\* env_snapshot, self.env was never handed to them.
join_env(cur, ws) == cur

\* `env_snapshot.clone().child()` and `child_env.set(&var, item)`
worker_env(snapshot, var, item) == set(child(snapshot), var, item)

NewWorker(item) ==
  [state |-> "pending", item |-> item, env |-> EnvNew, pc |-> 1, res |-> Ok,
   h |-> 0, n |-> 0, val |-> Null]

\* interp.run(body): the worker ends at the first error or after the last
\* statement.
after_stmt(w, chain, r, body) ==
  IF ~IsOk(r) THEN [w EXCEPT !.state = "done", !.env = chain, !.res = r]
  ELSE IF w.pc = Len(body) THEN [w EXCEPT !.state = "done", !.env = chain, !.pc = w.pc + 1]
  ELSE [w EXCEPT !.state = "running", !.env = chain, !.pc = w.pc + 1]

\* The evaluator state of a worker's interpreter.
WorkerSt(w) == [env |-> w.env, heap |-> heap, fns |-> fns, out |-> <<>>, ovf |-> FALSE,
                hasher |-> hasher]

IsPush(s) == s.k = "Expr" /\ s.expr.k = "Call" /\ s.expr.name = "push"

Busy == {j \in DOMAIN workers : workers[j].state \in {"running", "locked", "evaluated"}}

\* ------------------------------------- programs with a parallel statement
\* Programs that bind a := [] and x := 0 and then run one parallel statement
\* over a list of at most two items on one or two threads: at the top level
\* followed by print(3), as the first statement of g in y := g(), or as the
\* first statement of the body of a while loop.
ItemLists == {<<>>, <<0, 1>>, <<1, 0>>, <<1, 2>>}
V == EIdent("v")
PushBody == <<SExpr(ECall("push", <<EIdent("a"), V>>))>>
OwnScopeBody == <<SAssign("x", V), SLet("y", EIdent("x"))>>
DivBody == <<SLet("y", EBin("Div", EInt(1), V)), SLet("l", EInt(1))>>
StopBody == <<SStop(V)>>
ReturnBody == <<SReturn(V)>>
BreakBody == <<SBreak>>
ContinueBody == <<SContinue>>
ParBodies ==
  {PushBody, OwnScopeBody, DivBody, StopBody, ReturnBody, BreakBody, ContinueBody}
Signals == {"ReturnSignal", "StopSignal", "BreakSignal", "ContinueSignal"}

ParStmt(items, t, body) ==
  SParallel("v", EList([i \in 1..Len(items) |-> EInt(items[i])]), Some(EInt(t)), body)

\* The statements that follow the parallel statement in its block.
Rest(kind) ==
  CASE kind = "fn" -> <<SReturn(EInt(0))>>
    [] kind = "while" -> Say(3) \o <<SBreak>>
    [] OTHER -> <<>>

Program(kind, par) ==
  CASE kind = "fn" -> SLet("y", ECall("g", <<>>))
    [] kind = "while" -> SWhile(EInt(1), <<par>> \o Rest("while"))
    [] OTHER -> par

DeclShared ==
  /\ ~Bound("a")
  /\ Step(SLet("a", EList(<<>>)))
  /\ UNCHANGED ghosts

DeclX ==
  /\ ~Bound("x")
  /\ Step(SLet("x", EInt(0)))
  /\ UNCHANGED ghosts

\* Stmt::Parallel up to pool.install: the list, the thread count and the
\* snapshot. In a function or a loop body the statement runs in the child
\* scope that call_closure or Stmt::While opened.
ParStart ==
  \E items \in ItemLists, body \in ParBodies, t \in 1..2, kind \in {"top", "fn", "while"} :
    /\ status = "running"
    /\ phase = "idle"
    /\ pstmt = NoStmt
    /\ Bound("a")
    /\ Bound("x")
    /\ \E par \in {ParStmt(items, t, body)},
          it \in {self_eval_expr(ParStmt(items, t, body).iter,
                    [Cur EXCEPT !.env = IF kind = "top" THEN env ELSE child(env)])} :
       \E list \in {into_list(it.v, it.st)},
          n \in {self_eval_expr(par.workers.x, it.st)} :
           /\ IsOk(it.r) /\ IsOk(list.r) /\ IsOk(n.r) /\ ~n.st.ovf
           /\ phase' = "par"
           /\ ctx' = kind
           /\ pstmt' = par
           /\ penv' = n.st.env
           /\ workers' = [i \in 1..Len(list.items) |-> NewWorker(list.items[i])]
           /\ finished' = <<>>
           /\ passes' = 1
           /\ heap' = arc_drop(n.st.heap, FrameVals(env) \cup FnRoots(fns))
           /\ stmt' = Program(kind, par)
    /\ UNCHANGED <<env, fns, out, last, status, exit_code, hasher, front, sem>>
    /\ UNCHANGED ghosts

\* A thread of the pool takes an item and builds the worker's interpreter.
WorkerStart ==
  \E i \in DOMAIN workers :
    /\ phase = "par"
    /\ workers[i].state = "pending"
    /\ Cardinality(Busy) < pstmt.workers.x.n
    /\ workers' = [workers EXCEPT ![i].state = "running",
                                  ![i].env = worker_env(penv, pstmt.var, workers[i].item)]
    /\ UNCHANGED <<core, ghosts, phase, ctx, pstmt, penv, hasher, front, sem, finished, passes>>

\* A worker executes its next statement, one that takes no lock of a cell.
WorkerStmt ==
  \E i \in DOMAIN workers :
    /\ phase = "par"
    /\ workers[i].state = "running"
    /\ ~IsPush(pstmt.body[workers[i].pc])
    /\ \E w \in {workers[i]} :
       \E res \in {self_exec_stmt(pstmt.body[w.pc], WorkerSt(w))} :
       \E w2 \in {after_stmt(w, res.st.env, res.r, pstmt.body)} :
           /\ ~res.st.ovf
           /\ workers' = [workers EXCEPT ![i] = w2]
           /\ finished' = IF w2.state = "done" THEN Append(finished, i) ELSE finished
           /\ heap' = res.st.heap
           /\ fns' = res.st.fns
    /\ UNCHANGED <<env, out, last, stmt, status, exit_code, ghosts>>
    /\ UNCHANGED <<phase, ctx, pstmt, penv, hasher, front, sem, passes>>

\* push(l, v) up to `list.lock().unwrap()`: the arguments are evaluated, and
\* the worker takes the guard of the cell and sees the vector's length.
WorkerLock ==
  \E i \in DOMAIN workers :
    /\ phase = "par"
    /\ workers[i].state = "running"
    /\ IsPush(pstmt.body[workers[i].pc])
    /\ \E w \in {workers[i]} :
       \E args \in {self_eval_list(pstmt.body[w.pc].expr.args, WorkerSt(w))} :
       LET r == IF ~IsOk(args.r) THEN args.r
                ELSE IF Len(args.vs) = 2 /\ args.vs[1].t = "list" THEN Ok
                ELSE Err("TypeMismatch")
       IN  /\ ~args.st.ovf
           /\ IF ~IsOk(r)
              THEN /\ workers' = [workers EXCEPT ![i] = after_stmt(w, args.st.env, r, pstmt.body)]
                   /\ finished' = Append(finished, i)
                   /\ heap' = args.st.heap
              ELSE /\ lock_free(heap[args.vs[1].v])
                   /\ workers' = [workers EXCEPT ![i].state = "locked",
                                                 ![i].h = args.vs[1].v,
                                                 ![i].n = Len(heap[args.vs[1].v].items),
                                                 ![i].val = args.vs[2]]
                   /\ finished' = finished
                   /\ heap' = [args.st.heap EXCEPT ![args.vs[1].v].owner = i]
    /\ UNCHANGED <<env, fns, out, last, stmt, status, exit_code, ghosts>>
    /\ UNCHANGED <<phase, ctx, pstmt, penv, hasher, front, sem, passes>>

\* `.push(v)` under the guard, and the guard's drop: the value is written
\* behind the length the worker saw.
WorkerPush ==
  \E i \in DOMAIN workers :
    /\ phase = "par"
    /\ workers[i].state = "locked"
    /\ workers[i].n < MaxLen
    /\ LET w == workers[i]
           w2 == after_stmt([w EXCEPT !.h = 0, !.n = 0, !.val = Null], w.env, Ok, pstmt.body)
       IN  /\ heap' = [heap EXCEPT ![w.h].items = Append(SubSeq(@, 1, w.n), w.val),
                                   ![w.h].owner = 0]
           /\ workers' = [workers EXCEPT ![i] = w2]
           /\ finished' = IF w2.state = "done" THEN Append(finished, i) ELSE finished
    /\ UNCHANGED <<env, fns, out, last, stmt, status, exit_code, ghosts>>
    /\ UNCHANGED <<phase, ctx, pstmt, penv, hasher, front, sem, passes>>

\* The result of the block the parallel statement stands in: the first
\* error of the workers, or what the statements after it return.
block_result ==
  LET r == first_error(workers, finished)
      st == [env |-> penv, heap |-> heap, fns |-> fns, out |-> <<>>, ovf |-> FALSE,
             hasher |-> hasher]
  IN  IF IsOk(r) THEN self_exec_block_inner(Rest(ctx), st) ELSE Done(st, r)

\* pool.install returns and the statement, and the call or the loop around
\* it, come to their end.
ParJoin ==
  /\ phase = "par"
  /\ collect_ready(workers)
  /\ \E body \in {block_result} :
     LET cr == closure_result(body.r)
         done ==
           CASE ctx = "fn" ->
                  IF IsOk(cr.r) THEN [env |-> set(env, "y", cr.v), r |-> Ok]
                  ELSE [env |-> env, r |-> cr.r]
             [] ctx = "while" ->
                  [env |-> into_parent(body.st.env),
                   r |-> IF loop_result(body.r) = "break" THEN Ok ELSE body.r]
             [] OTHER -> [env |-> join_env(env, workers), r |-> body.r]
     IN  /\ ~body.st.ovf
         /\ ctx = "while" => loop_result(body.r) # "next"
         /\ env' = done.env
         /\ heap' = arc_drop(body.st.heap, FrameVals(done.env) \cup FnRoots(body.st.fns))
         /\ fns' = body.st.fns
         /\ out' = body.st.out
         /\ last' = done.r
         /\ status' = IF IsOk(done.r) THEN "running" ELSE "exited"
         /\ exit_code' = exit_status(done.r)
  /\ phase' = "idle"
  /\ UNCHANGED <<stmt, ghosts, ctx, pstmt, penv, hasher, front, sem, workers, finished, passes>>

\* The enclosing loop goes round: its condition holds and its body starts
\* again with the parallel statement.
ParAgain ==
  /\ phase = "par"
  /\ collect_ready(workers)
  /\ ctx = "while"
  /\ loop_result(block_result.r) = "next"
  /\ passes < MaxFuel
  /\ passes' = passes + 1
  /\ workers' = [i \in DOMAIN workers |-> NewWorker(workers[i].item)]
  /\ finished' = <<>>
  /\ UNCHANGED <<core, ghosts, phase, ctx, pstmt, penv, hasher, front, sem>>

\* The statement after a parallel statement of the top level.
AfterPar ==
  /\ pstmt # NoStmt
  /\ ctx = "top"
  /\ stmt = pstmt
  /\ Step(SExpr(ECall("print", <<EInt(3)>>)))
  /\ UNCHANGED ghosts

ParNext ==
  \/ DeclShared \/ DeclX \/ ParStart \/ WorkerStart \/ WorkerStmt
  \/ WorkerLock \/ WorkerPush \/ ParJoin \/ ParAgain \/ AfterPar

ParSpec == Init /\ [][ParNext]_vars

\* The parallel statement, and the call or loop around it, has finished.
Joined == pstmt # NoStmt /\ phase = "idle"
Failed == {i \in DOMAIN workers : ~IsOk(workers[i].res)}
SharedItems == heap[get(env, "a").v].items

\* C1: when the parallel statement has finished, a worker was started for
\* every item of the list and every worker has run its body to its own end:
\* past the last statement, or to its own error. So no error is surfaced
\* while a worker is still pending or running.
C1_AllWorkersComplete ==
  Joined =>
    /\ Len(workers) = Len(pstmt.iter.items)
    /\ \A i \in DOMAIN workers :
         /\ workers[i].state = "done"
         /\ IsOk(workers[i].res) => workers[i].pc = Len(pstmt.body) + 1

\* The first worker failed, and the second worker ran both statements of
\* its body to the end after the first one had failed.
C1_Witness_RanAfterError ==
  /\ Joined
  /\ pstmt.body = DivBody
  /\ finished = <<1, 2>>
  /\ workers[1].res.kind = "DivisionByZero"
  /\ IsOk(workers[2].res)
  /\ workers[2].pc = 3

\* C2: a parallel statement of the top level surfaces the error of the
\* erroring worker with the lowest index, in whatever order the workers
\* completed; when no worker errors it returns normally, and only then the
\* statement after it runs.
C2_LowestIndexError ==
  /\ (Joined /\ ctx = "top" /\ stmt = pstmt) =>
       IF Failed = {} THEN IsOk(last) /\ status = "running"
       ELSE \E i \in Failed :
              /\ \A j \in Failed : i <= j
              /\ last = workers[i].res
              /\ status = "exited"
  /\ (Joined /\ ctx = "top" /\ stmt # pstmt) =>
       Failed = {} /\ out = <<Render(IntV(3), heap)>>

\* Both workers stopped with different codes, the second one completed
\* first, and the statement surfaced the first worker's stop signal.
C2_Witness_CompletionOrder ==
  /\ Joined
  /\ ctx = "top"
  /\ finished = <<2, 1>>
  /\ workers[1].res = ErrV("StopSignal", IntV(1))
  /\ workers[2].res = ErrV("StopSignal", IntV(2))
  /\ last = workers[1].res

\* C3: when a worker has raised a return, stop, break or continue signal,
\* the parallel statement surfaces an error, so the call y := g() around it
\* fails instead of returning a value and the loop around it fails instead
\* of ending normally, and the loop never starts its body a second time.
C3_SignalsContained ==
  /\ passes <= 1
  /\ (Joined /\ ctx \in {"fn", "while"}
        /\ \E i \in DOMAIN workers : workers[i].res.kind \in Signals) => ~IsOk(last)

\* C4: a worker that assigns x and reads it back sees the value it assigned
\* itself, while it runs and when it is done; after a parallel statement of
\* the top level the scope chain binds every name as at parallel entry.
C4_OwnScope ==
  /\ \A i \in DOMAIN workers :
       (pstmt.body = OwnScopeBody /\ workers[i].state # "pending") =>
         /\ get(workers[i].env, "x") \in {get(penv, "x"), workers[i].item}
         /\ workers[i].pc > 1 => get(workers[i].env, "x") = workers[i].item
         /\ workers[i].pc > 2 => get(workers[i].env, "y") = workers[i].item
  /\ (Joined /\ ctx = "top" /\ stmt = pstmt) =>
       \A n \in Names : get(env, n) = get(penv, n)

\* Two workers on two threads have assigned different values to x, and the
\* enclosing x is still 0.
C4_Witness_BothAssigned ==
  /\ Joined
  /\ ctx = "top"
  /\ pstmt.body = OwnScopeBody
  /\ pstmt.workers.x.n = 2
  /\ Len(workers) = 2
  /\ get(workers[1].env, "y") # get(workers[2].env, "y")
  /\ get(workers[1].env, "y") # IntV(0)
  /\ get(env, "x") = IntV(0)

\* C5: after N workers each executed push(a, v) on the list a of the
\* enclosing scope, which was empty, a has exactly N elements and holds the
\* value of every worker once.
C5_NoLostPush ==
  (Joined /\ pstmt.body = PushBody) =>
    /\ Len(SharedItems) = Len(workers)
    /\ \A i \in DOMAIN workers :
         Cardinality({k \in DOMAIN SharedItems : SharedItems[k] = workers[i].item}) = 1

\* The pushes of the items 1 and 2 have landed in the other order.
C5_Witness_OtherOrder ==
  /\ Joined
  /\ pstmt.body = PushBody
  /\ Len(workers) = 2
  /\ SharedItems = <<IntV(2), IntV(1)>>

\* --------------------------------------------- programs over try/finally
\* Try statements whose body succeeds, fails with an undefined variable or
\* returns, whose handler succeeds or fails with a type mismatch, and whose
\* finally block prints 2 and then succeeds or divides by zero; at the top
\* level and as the first statement of the declared function f.
TryBodies ==
  {Say(0), <<SLet("y", EIdent("b"))>>} \cup {<<SReturn(EInt(n))>> : n \in 0..2}
TryHandlers == {Say(1), Say(1) \o <<SExpr(ECall("push", <<EInt(1), EInt(1)>>))>>}
TryFinals == {Say(2), Say(2) \o <<SLet("l", Div0)>>}
TryStmts == {STry(B, "e", H, Some(F)) : B \in TryBodies, H \in TryHandlers, F \in TryFinals}

TryTop ==
  \E t \in TryStmts :
    /\ Step(t)
    /\ UNCHANGED ghosts

DeclTryFn ==
  \E t \in TryStmts :
    /\ ~Bound("f")
    /\ Step(SFn("f", <<>>, <<t, SReturn(EInt(3))>>))
    /\ UNCHANGED ghosts

CallTryFn ==
  /\ Bound("f")
  /\ Step(SLet("y", CallF))
  /\ UNCHANGED ghosts

TryNext == TryTop \/ DeclTryFn \/ CallTryFn

TrySpec == Init /\ [][TryNext]_vars

\* The outcome the try statement t must have: the finally block's error
\* if it fails, else the body's return signal, else the handler's outcome
\* when the body failed, else success.
TryOutcome(t) ==
  IF t.finally_body.x \notin {Say(2)} THEN Err("DivisionByZero")
  ELSE IF t.body[1].k = "Return" THEN ErrV("ReturnSignal", IntV(t.body[1].value.n))
  ELSE IF t.body = Say(0) THEN Ok
  ELSE IF t.catch_body = Say(1) THEN Ok
  ELSE Err("TypeMismatch")

\* What the try statement t must print: the body's 0 or, when the body
\* failed, the handler's 1, and then the finally block's 2, once.
TryOutput(t) ==
  (IF t.body = Say(0) THEN <<Render(IntV(0), heap)>>
   ELSE IF t.body[1].k = "Return" THEN <<>>
   ELSE <<Render(IntV(1), heap)>>) \o <<Render(IntV(2), heap)>>

\* C11: a try statement at the top level ends with the outcome and the
\* output above, and a call y := f() of a function that starts with the try
\* statement prints the same and fails with the finally block's or the
\* handler's error, or binds y to the returned value (3 after the try).
C11_FinallyOnceAndOverrides ==
  /\ stmt.k = "Try" => (last = TryOutcome(stmt) /\ out = TryOutput(stmt))
  /\ (stmt = SLet("y", CallF) /\ Bound("f")) =>
       LET t == fns[get(env, "f").v].body[1]
           o == TryOutcome(t)
       IN  /\ out = TryOutput(t)
           /\ o.kind = "Ok" => (IsOk(last) /\ get(env, "y") = IntV(3))
           /\ o.kind = "ReturnSignal" => (IsOk(last) /\ get(env, "y") = o.v)
           /\ o.kind \notin {"Ok", "ReturnSignal"} => last = o

\* ------------------------------------------------- programs over `or`
\* Programs that bind a := [1], x := {1: 0} and f(a), and then run
\* y := E or D for an expression E that succeeds or fails in one of the
\* ways below and a default D that is a literal, fails itself, prints, or
\* reads the name i that no statement of the top level declares.
OrFailing ==
  { EIndex(EInt(1), EInt(0)),              \* type mismatch
    Div0,                                  \* division by zero
    EIndex(EIdent("a"), EInt(1)),          \* index out of bounds
    EIndex(EIdent("x"), EStr(2)),          \* key not found
    EIdent("b"),                           \* undefined variable
    ECall("c", <<>>),                      \* undefined function
    CallF,                                 \* missing argument
    EListComp(Div0, "i", EIdent("a")) }    \* division by zero in a comprehension
OrSucceeding == {EInt(1), EIndex(EIdent("a"), EInt(0)), EIndex(EIdent("x"), EStr(1))}
OrDefaults == {EInt(2), Div0, ECall("print", <<EInt(3)>>), EIdent("i")}

\* The value of a succeeding expression of the menu.
OrValue(E) == IF E = EIndex(EIdent("x"), EStr(1)) THEN IntV(0) ELSE IntV(1)

OrSetup ==
  \E s \in {SLet("a", One), SLet("x", EMap(<<<<1, EInt(0)>>>>)),
            SFn("f", <<Param("a")>>, <<SReturn(EInt(1))>>)} :
    /\ ~Bound(s.name)
    /\ Step(s)
    /\ UNCHANGED ghosts

OrLet ==
  \E E \in OrFailing \cup OrSucceeding, D \in OrDefaults :
    /\ Bound("a") /\ Bound("x") /\ Bound("f")
    /\ Step(SLet("y", EOr(E, D)))
    /\ UNCHANGED ghosts

OrNext == OrSetup \/ OrLet

OrSpec == Init /\ [][OrNext]_vars

\* C12: after y := E or D, when E succeeds y is its value and D was not
\* evaluated (nothing printed); when E fails, whatever the failure, the
\* statement has the outcome of D: y is 2, or the division by zero of D is
\* the error, or D has printed 3 and y is null, or the name i is undefined.
C12_OrSuppressesAll ==
  (stmt.k = "Let" /\ stmt.value.k = "OrDefault") =>
    LET E == stmt.value.expr
        D == stmt.value.default
    IN  IF E \in OrSucceeding
        THEN IsOk(last) /\ get(env, "y") = OrValue(E) /\ out = <<>>
        ELSE CASE D = EInt(2) -> IsOk(last) /\ get(env, "y") = IntV(2) /\ out = <<>>
               [] D = Div0 -> last = Err("DivisionByZero") /\ out = <<>>
               [] D = EIdent("i") -> last = Err("UndefinedVariable") /\ out = <<>>
               [] OTHER -> IsOk(last) /\ get(env, "y") = Null
                           /\ out = <<Render(IntV(3), heap)>>

\* ----------------------------------------------- programs over c[i]
\* Programs that bind a to a list of up to two items and x to a map of up
\* to two keys, and then run y := c[i] for a container c that is the list,
\* the map, an integer, null or a string, and an index i that is an
\* integer, a string, null, the list or the map.
IdxLists ==
  { <<>>, <<EInt(1)>>, <<EInt(2), EStr(1)>> }
IdxMaps ==
  { <<>>, <<<<1, EInt(0)>>>>, <<<<2, EInt(1)>>, <<1, EStr(2)>>>> }
IdxContainers == {EIdent("a"), EIdent("x"), EInt(1), ENull, EStr(1)}
IdxIndexes ==
  {EInt(n) : n \in -2..2} \cup {EStr(1), EStr(2), ENull, EIdent("a"), EIdent("x")}
IdxReads == {SLet("y", EIndex(c, i)) : c \in IdxContainers, i \in IdxIndexes}

IdxSetup ==
  \E s \in {SLet("a", EList(l)) : l \in IdxLists}
           \cup {SLet("x", EMap(m)) : m \in IdxMaps} :
    /\ ~Bound(s.name)
    /\ Step(s)
    /\ UNCHANGED ghosts

IdxRead ==
  \E s \in IdxReads :
    /\ Bound("a") /\ Bound("x")
    /\ Step(s)
    /\ UNCHANGED ghosts

IdxNext == IdxSetup \/ IdxRead

IndexSpec == Init /\ [][IdxNext]_vars

\* The value of an operand of the menu in the current state.
IdxValue(e) ==
  CASE e.k = "Ident" -> get(env, e.name)
    [] e.k = "Int" -> IntV(e.n)
    [] e.k = "Str" -> StrV(e.s)
    [] OTHER -> Null

\* C13: a step that runs y := c[i] binds y to element i of a list when
\* 0 <= i < n and fails with IndexOutOfBounds for every other integer i;
\* binds y to the value stored under a string key of a map or fails with
\* KeyNotFound; fails with TypeMismatch for every other pair; and leaves
\* the heap and the bindings of the list and the map as they were.
C13_IndexRead ==
  [][ stmt' \in IdxReads =>
        LET c == IdxValue(stmt'.value.expr)
            i == IdxValue(stmt'.value.index)
        IN  /\ heap' = heap
            /\ get(env', "a") = get(env, "a")
            /\ get(env', "x") = get(env, "x")
            /\ IF c.t = "list" /\ i.t = "int"
               THEN LET items == heap[c.v].items IN
                    IF 0 <= i.v /\ i.v < Len(items)
                    THEN IsOk(last') /\ get(env', "y") = items[i.v + 1]
                    ELSE last' = Err("IndexOutOfBounds")
               ELSE IF c.t = "dict" /\ i.t = "string"
               THEN LET m == heap[c.v].map IN
                    IF i.v \in Keys /\ m[i.v] # Undef
                    THEN IsOk(last') /\ get(env', "y") = m[i.v]
                    ELSE last' = Err("KeyNotFound")
               ELSE last' = Err("TypeMismatch") ]_vars

\* y := a[-1] on a list of two items has failed with IndexOutOfBounds.
C13_Witness_NegativeIndex ==
  /\ stmt = SLet("y", EIndex(EIdent("a"), EInt(-1)))
  /\ Bound("a") /\ Len(heap[get(env, "a").v].items) = 2
  /\ last = Err("IndexOutOfBounds")

\* ----------------------------------------------- programs over a[s:e]
\* Programs that bind a to a list of up to two items, run b := a[s:e] with
\* each bound missing, an integer literal or len(a), and then push to b or
\* store into b.
SliceLists == { <<>>, <<EInt(1)>>, <<EInt(1), EInt(2)>> }
SliceBounds ==
  {None} \cup {Some(EInt(n)) : n \in -3..3} \cup {Some(ECall("len", <<EIdent("a")>>))}
SliceLets == {SLet("b", ESlice(EIdent("a"), s, e)) : s \in SliceBounds, e \in SliceBounds}
SliceWrites ==
  { SExpr(ECall("push", <<EIdent("b"), EInt(3)>>)),
    SIndexAssign(EIdent("b"), EInt(0), EInt(3)) }

SliceSetup ==
  \E l \in SliceLists :
    /\ ~Bound("a")
    /\ Step(SLet("a", EList(l)))
    /\ UNCHANGED ghosts

SliceLet ==
  \E s \in SliceLets :
    /\ Bound("a") /\ ~Bound("b")
    /\ Step(s)
    /\ UNCHANGED ghosts

SliceWrite ==
  \E s \in SliceWrites :
    /\ Bound("b")
    /\ Step(s)
    /\ UNCHANGED ghosts

SliceNext == SliceSetup \/ SliceLet \/ SliceWrite

SliceSpec == Init /\ [][SliceNext]_vars

\* C14: a step that runs b := a[s:e] on a list of n items succeeds and
\* leaves the program running; b is a list cell that was free before the
\* step and holds the items at positions s' to e'-1, where a missing s is 0,
\* a missing e is n and a given bound k is clamp(k < 0 ? n + k : k, 0, n);
\* the cell of a is as before; and a later push to b or store into b
\* leaves the items of a as they were.
C14_SliceCopies ==
  [][ /\ stmt' \in SliceLets =>
           LET src == get(env, "a").v
               items == heap[src].items
               n == Len(items)
               val(b, missing) ==
                 CASE ~b.some -> missing
                   [] b.x.k = "Int" -> IF b.x.n < 0 THEN n + b.x.n ELSE b.x.n
                   [] OTHER -> n
               norm(k) == IF k < 0 THEN 0 ELSE IF k > n THEN n ELSE k
               s == norm(val(stmt'.value.start, 0))
               e == norm(val(stmt'.value.end, n))
               res == get(env', "b")
           IN  /\ IsOk(last') /\ status' = "running"
               /\ res.t = "list" /\ res.v # src /\ heap[res.v].kind = "free"
               /\ heap'[res.v].items = SubSeq(items, s + 1, e)
               /\ heap'[src] = heap[src]
      /\ stmt' \in SliceWrites =>
           heap'[get(env, "a").v].items = heap[get(env, "a").v].items ]_vars

\* ------------------------------------- programs over a..b and range(a, b)
\* Programs that run y := a..b and l := range(a, b), in either order, for
\* integer literals a and b.
RangeInts == -2..2

RangeExpr ==
  \E a \in RangeInts, b \in RangeInts :
    /\ ~Bound("y")
    /\ Step(SLet("y", ERange(EInt(a), EInt(b))))
    /\ UNCHANGED ghosts

RangeCall ==
  \E a \in RangeInts, b \in RangeInts :
    /\ ~Bound("l")
    /\ Step(SLet("l", ECall("range", <<EInt(a), EInt(b)>>)))
    /\ UNCHANGED ghosts

RangeNext == RangeExpr \/ RangeCall

RangeSpec == Init /\ [][RangeNext]_vars

\* C15: a step that runs y := a..b or l := range(a, b) succeeds and binds
\* the name to a list cell that was free before the step, whose items are
\* a, a+1, ..., b-1 and whose length is max(0, b - a); the cell of a list
\* bound before is as it was.
C15_RangeHalfOpen ==
  [][ (stmt'.k = "Let" /\ stmt'.value.k \in {"Range", "Call"}) =>
        LET v == stmt'.value
            a == IF v.k = "Range" THEN v.start.n ELSE v.args[1].n
            b == IF v.k = "Range" THEN v.end.n ELSE v.args[2].n
            res == get(env', stmt'.name)
        IN  /\ IsOk(last')
            /\ res.t = "list" /\ heap[res.v].kind = "free"
            /\ Len(heap'[res.v].items) = (IF b - a > 0 THEN b - a ELSE 0)
            /\ \A i \in 1..Len(heap'[res.v].items) : heap'[res.v].items[i] = IntV(a + i - 1)
            /\ \A h \in DOMAIN heap : heap[h].kind # "free" => heap'[h] = heap[h] ]_vars

\* Both forms have run, one on a range of two items and one on an empty
\* range whose start is above its end.
C15_Witness_TwoAndEmpty ==
  /\ stmt = SLet("l", ECall("range", <<EInt(2), EInt(0)>>))
  /\ Bound("y") /\ Len(heap[get(env, "y").v].items) = 2
  /\ Bound("l") /\ heap[get(env, "l").v].items = <<>>

\* ------------------------------------- programs over keys(x) and values(x)
\* Programs that start with some iteration order of the process's hash
\* maps, bind x to an empty map, insert keys in any order and overwrite
\* them, and then run l := keys(x) and v := values(x).
HashOrders ==
  {o \in [1..Cardinality(Keys) -> Keys] : \A k \in Keys : \E i \in DOMAIN o : o[i] = k}

\* RandomState::new(): the keys of the hasher are drawn when the process
\* starts.
KeysSeed ==
  /\ stmt = NoStmt
  /\ hasher' \in HashOrders
  /\ UNCHANGED <<core, ghosts, phase, ctx, pstmt, penv, workers, finished, passes, sem, front>>

KeysNewMap ==
  /\ ~Bound("x")
  /\ Step(SLet("x", EMap(<<>>)))
  /\ UNCHANGED ghosts

KeysInsert ==
  \E k \in Keys, n \in {0, 1} :
    /\ Bound("x") /\ ~Bound("l")
    /\ Step(SIndexAssign(EIdent("x"), EStr(k), EInt(n)))
    /\ UNCHANGED ghosts

KeysCall ==
  /\ Bound("x") /\ ~Bound("l")
  /\ Step(SLet("l", ECall("keys", <<EIdent("x")>>)))
  /\ UNCHANGED ghosts

ValuesCall ==
  /\ Bound("l") /\ ~Bound("v")
  /\ Step(SLet("v", ECall("values", <<EIdent("x")>>)))
  /\ UNCHANGED ghosts

KeysNext == KeysSeed \/ KeysNewMap \/ KeysInsert \/ KeysCall \/ ValuesCall

KeysSpec == Init /\ [][KeysNext]_vars

\* The keys a map holds.
KeysIn(m) == {k \in Keys : m[k] # Undef}

EqFirst == {EList(<<EInt(1)>>), EMap(<<<<1, EInt(0)>>>>)}
EqSecond ==
  { EList(<<EFloat(2)>>), EList(<<EInt(2)>>), EList(<<EInt(1), EInt(1)>>),
    EList(<<EIdent("a")>>), EIdent("a"),
    EMap(<<<<1, EFloat(0)>>>>), EMap(<<<<1, EInt(1)>>>>), EMap(<<<<2, EInt(0)>>>>) }
EqOperands ==
  { ENull, EInt(1), EInt(2), EFloat(2), EFloat(3), EBool(TRUE), EStr(1),
    EIdent("a"), EIdent("b") }
EqOps == {"Eq", "NotEq", "In"}

EqSetup ==
  \/ \E e \in EqFirst :
       /\ ~Bound("a")
       /\ Step(SLet("a", e))
       /\ UNCHANGED ghosts
  \/ \E e \in EqSecond :
       /\ Bound("a") /\ ~Bound("b")
       /\ Step(SLet("b", e))
       /\ UNCHANGED ghosts

EqLet ==
  \E op \in EqOps, l \in EqOperands, r \in EqOperands :
    /\ Bound("b") /\ ~Bound("y")
    /\ Step(SLet("y", EBin(op, l, r)))
    /\ UNCHANGED ghosts

EqNext == EqSetup \/ EqLet

EqSpec == Init /\ [][EqNext]_vars

\* The value of an operand of the menu in the current state.
EqValue(e) ==
  CASE e.k = "Ident" -> get(env, e.name)
    [] e.k = "Int" -> IntV(e.n)
    [] e.k = "Float" -> FloatV(e.halves)
    [] e.k = "Bool" -> BoolV(e.b)
    [] e.k = "Str" -> StrV(e.s)
    [] OTHER -> Null

\* Structural equality of two values over the current heap.
RECURSIVE StructEq(_, _)
StructEq(u, v) ==
  LET Num(w) == IF w.t = "int" THEN 2 * w.v ELSE w.v IN
  CASE u.t \in {"int", "float"} /\ v.t \in {"int", "float"} -> Num(u) = Num(v)
    [] u.t # v.t -> FALSE
    [] u.t = "list" ->
         LET p == heap[u.v].items
             q == heap[v.v].items
         IN  Len(p) = Len(q) /\ \A i \in DOMAIN p : StructEq(p[i], q[i])
    [] u.t = "dict" ->
         LET p == heap[u.v].map
             q == heap[v.v].map
         IN  \A k \in Keys : IF p[k] = Undef \/ q[k] = Undef THEN p[k] = q[k]
                             ELSE StructEq(p[k], q[k])
    [] OTHER -> u.v = v.v

\* C17: a step that runs y := L == R succeeds and binds y to the boolean
\* that is true exactly when L and R are structurally equal, y := L != R
\* binds its negation, and y := L in R for a list R binds the boolean that
\* is true exactly when some item of R is structurally equal to L.
C17_StructuralEquality ==
  [][ (stmt'.k = "Let" /\ stmt'.name = "y" /\ stmt'.value.k = "BinOp") =>
        LET op == stmt'.value.op
            l == EqValue(stmt'.value.left)
            r == EqValue(stmt'.value.right)
        IN  CASE op = "Eq" -> IsOk(last') /\ get(env', "y") = BoolV(StructEq(l, r))
              [] op = "NotEq" -> IsOk(last') /\ get(env', "y") = BoolV(~StructEq(l, r))
              [] op = "In" /\ r.t = "list" ->
                   /\ IsOk(last')
                   /\ get(env', "y") =
                        BoolV(\E i \in DOMAIN heap[r.v].items : StructEq(heap[r.v].items[i], l))
              [] OTHER -> TRUE ]_vars

\* ------------------------------------------ programs over assignment
\* Programs that declare x := 0 at the top level and then assign to x, by
\* x = n or x += 1, at the top level, in an if block, in an if block inside
\* an if block, in the body of a while loop, of a for loop and of a try,
\* and in the body of a declared function f called from the top level.
Assigns ==
  {SAssign("x", EInt(n)) : n \in {1, 2}} \cup {SCompoundAssign("x", "Add", EInt(1))}
AssignPlaces == {"top", "if", "if-if", "while", "for", "try"}

\* The statement that runs the assignment s at a place.
Placed(place, s) ==
  CASE place = "top" -> s
    [] place = "if" -> SIf(EInt(1), <<s>>, None)
    [] place = "if-if" -> SIf(EInt(1), <<SIf(EInt(1), <<s>>, None)>>, None)
    [] place = "while" -> SWhile(EInt(1), <<s, SBreak>>)
    [] place = "for" -> SFor("i", One, <<s>>)
    [] OTHER -> STry(<<s>>, "e", <<>>, None)

AssignDeclare ==
  /\ ~Bound("x")
  /\ Step(SLet("x", EInt(0)))
  /\ UNCHANGED ghosts

AssignAt ==
  \E place \in AssignPlaces, s \in Assigns :
    /\ Bound("x")
    /\ Step(Placed(place, s))
    /\ UNCHANGED ghosts

AssignDeclFn ==
  \E s \in Assigns :
    /\ Bound("x") /\ ~Bound("f")
    /\ Step(SFn("f", <<>>, <<s>>))
    /\ UNCHANGED ghosts

AssignCallFn ==
  /\ Bound("x") /\ Bound("f")
  /\ Step(SExpr(CallF))
  /\ UNCHANGED ghosts

AssignNext == AssignDeclare \/ AssignAt \/ AssignDeclFn \/ AssignCallFn

AssignSpec == Init /\ [][AssignNext]_vars

\* The value of x after the assignment s when x held old.
Assigned(s, old) == IF s.k = "Assign" THEN IntV(s.value.n) ELSE IntV(old.v + 1)

\* C18: a step that runs an assignment to x at any place, the body of the
\* declared function f called from the top level included, succeeds and
\* leaves in the top-level frame, where x was declared, the assigned
\* value: n after x = n, the old value plus one after x += 1.
C18_AssignReachesOwner ==
  [][ /\ \A place \in AssignPlaces, s \in Assigns :
           stmt' = Placed(place, s) =>
             IsOk(last') /\ Len(env') = 1 /\ env'[1]["x"] = Assigned(s, get(env, "x"))
      /\ (stmt' = SExpr(CallF) /\ Bound("f")) =>
           /\ IsOk(last') /\ Len(env') = 1
           /\ env'[1]["x"] = Assigned(fns[get(env, "f").v].body[1], get(env, "x")) ]_vars

\* ------------------------------------------- calls on the scope chain
\* The methods of Env applied to a chain of up to MaxDepth frames over the
\* names x and y: get, set, assign, child and into_parent. stmt records
\* the call and last its result.
EnvNames == {"x", "y"}
EnvVals == {IntV(1), IntV(2)}
EnvCall(k, name, val) == [k |-> k, name |-> name, val |-> val]

EnvOp(call, chain, result) ==
  /\ status = "running" /\ phase = "idle"
  /\ env' = chain
  /\ stmt' = call
  /\ last' = result
  /\ UNCHANGED <<heap, fns, out, status, exit_code, ghosts, pvars>>

EnvGet ==
  \E name \in EnvNames :
    EnvOp(EnvCall("get", name, Null), env, ErrV("Ok", get(env, name)))

EnvSet ==
  \E name \in EnvNames, val \in EnvVals :
    EnvOp(EnvCall("set", name, val), set(env, name, val), Ok)

EnvAssign ==
  \E name \in EnvNames, val \in EnvVals :
    LET a == assign(env, name, val) IN
    EnvOp(EnvCall("assign", name, val), a.env, a.r)

EnvChild ==
  /\ Len(env) < MaxDepth
  /\ EnvOp(EnvCall("child", "x", Null), child(env), Ok)

EnvIntoParent ==
  /\ Len(env) > 1
  /\ EnvOp(EnvCall("into_parent", "x", Null), into_parent(env), Ok)

EnvNext == EnvGet \/ EnvSet \/ EnvAssign \/ EnvChild \/ EnvIntoParent

EnvSpec == Init /\ [][EnvNext]_vars

\* The frames of a chain that hold name.
Holders(chain, name) == {d \in DOMAIN chain : chain[d][name] # Undef}
\* The chains differ at most in the binding of name in frame d.
SameBut(chain1, chain2, d, name) ==
  /\ Len(chain1) = Len(chain2)
  /\ \A j \in DOMAIN chain1 : \A n \in Names :
       (j # d \/ n # name) => chain1[j][n] = chain2[j][n]
Innermost(S) == CHOOSE d \in S : \A j \in S : j <= d

\* C19: get(name) returns the binding of the innermost frame that holds
\* name (none when no frame does) and changes nothing; set(name, v) binds
\* name to v in the innermost frame and changes nothing else; assign(name,
\* v) binds name to v in the innermost frame that holds name and changes
\* nothing else, and when no frame holds name it fails with
\* UndefinedVariable and the chain is unchanged.
C19_EnvFrames ==
  [][ LET name == stmt'.name
          H == Holders(env, name)
      IN  /\ stmt'.k = "get" =>
               /\ env' = env
               /\ last'.v = (IF H = {} THEN Undef ELSE env[Innermost(H)][name])
          /\ stmt'.k = "set" =>
               /\ SameBut(env, env', Len(env), name)
               /\ env'[Len(env)][name] = stmt'.val
          /\ stmt'.k = "assign" =>
               IF H = {} THEN last' = Err("UndefinedVariable") /\ env' = env
               ELSE /\ IsOk(last')
                    /\ SameBut(env, env', Innermost(H), name)
                    /\ env'[Innermost(H)][name] = stmt'.val ]_vars

\* assign has updated x in the outer frame from under a frame that holds
\* only y.
C19_Witness_AssignOuter ==
  /\ stmt = EnvCall("assign", "x", IntV(2))
  /\ Len(env) = 2
  /\ env[1]["x"] = IntV(2) /\ env[2]["x"] = Undef /\ env[2]["y"] # Undef

\* ------------------------------------------- programs for the analyzer
\* Programs of up to MaxProg statements, each a declaration without fault
\* or a statement with one fault: a read of the undeclared b, a call of the
\* undeclared c, an assignment to the undeclared b, len without arguments,
\* a return outside a function, a pipe into the undeclared c. The fault
\* stands at the top level, in an else block or in a finally block.
SemFaults ==
  { SLet("y", EIdent("b")),
    SExpr(ECall("c", <<>>)),
    SAssign("b", EInt(1)),
    SExpr(ECall("len", <<>>)),
    SReturn(EInt(1)),
    SExpr(EPipe(EInt(1), ECall("c", <<>>))) }
SemPlaces == {"top", "else", "finally"}
SemPlaced(place, s) ==
  CASE place = "top" -> s
    [] place = "else" -> SIf(EInt(1), <<SLet("x", EInt(1))>>, ElseBlock(<<s>>))
    [] OTHER -> STry(<<>>, "e", <<>>, Some(<<s>>))
SemStmts ==
  {SLet("x", EInt(1))} \cup {SemPlaced(place, s) : place \in SemPlaces, s \in SemFaults}

\* analyze: push_scope and register_builtins before the loop.
SemStart ==
  /\ sem.phase = "new"
  /\ sem' = [sem EXCEPT !.phase = "loop",
                        !.an = register_builtins(push_scope(SemanticAnalyzerNew))]
  /\ UNCHANGED <<core, ghosts, phase, ctx, pstmt, penv, workers, finished, passes, hasher, front>>

\* One iteration of analyze's loop over the statements.
SemCheck ==
  \E s \in SemStmts :
    /\ sem.phase = "loop"
    /\ Len(sem.program) < MaxProg
    /\ \E an \in {self_check_stmt(s, sem.an)} :
       /\ ~an.ovf
       /\ sem' = [sem EXCEPT !.an = an, !.program = Append(@, s)]
    /\ UNCHANGED <<core, ghosts, phase, ctx, pstmt, penv, workers, finished, passes, hasher, front>>

\* analyze: pop_scope and the return of the errors.
SemReturn ==
  /\ sem.phase = "loop"
  /\ sem' = [sem EXCEPT !.phase = "returned", !.an = pop_scope(sem.an)]
  /\ UNCHANGED <<core, ghosts, phase, ctx, pstmt, penv, workers, finished, passes, hasher, front>>

SemNext == SemStart \/ SemCheck \/ SemReturn

SemSpec == Init /\ [][SemNext]_vars

\* The diagnostic a fault of the menu calls for.
SemDiagnostic(s) ==
  CASE s = SLet("y", EIdent("b")) -> ErrV("UndefinedVariable", "b")
    [] s = SExpr(ECall("c", <<>>)) -> ErrV("UndefinedFunction", "c")
    [] s = SAssign("b", EInt(1)) -> ErrV("UndeclaredAssign", "b")
    [] s = SExpr(ECall("len", <<>>)) -> ErrV("ArgCountMismatch", <<"len", 1, 0>>)
    [] s = SReturn(EInt(1)) -> Err("ReturnOutsideFn")
    [] OTHER -> ErrV("UndefinedFunction", "c")
\* The diagnostics a program calls for, in source order.
RECURSIVE SemExpected(_)
SemExpected(program) ==
  IF program = <<>> THEN <<>>
  ELSE LET s == program[Len(program)]
           before == SemExpected(SubSeq(program, 1, Len(program) - 1))
       IN  IF s = SLet("x", EInt(1)) THEN before
           ELSE Append(before,
                  SemDiagnostic(CHOOSE f \in SemFaults :
                                  \E place \in SemPlaces : s = SemPlaced(place, f)))

\* C20: after every statement the analyzer has checked, and when analyze
\* has returned, the errors are the diagnostics of all the faulty
\* statements checked, one for each, in source order; and when analyze has
\* returned the scope stack is empty.
C20_AllDiagnosticsInOrder ==
  /\ sem.phase \in {"loop", "returned"} => sem.an.errors = SemExpected(sem.program)
  /\ sem.phase = "returned" => sem.an.scopes = <<>>

\* ------------------------------------- programs that declare functions
\* Programs of up to MaxProg statements that declare the functions f and c
\* at the top level, f in an if block and in the body of a while loop, f
\* twice in one if block, f in the body of f, and a function named as the
\* built-in len in an if block.
FnF == SFn("f", <<>>, <<>>)
DupStmts ==
  { FnF,
    SFn("c", <<>>, <<>>),
    SIf(EInt(1), <<FnF>>, None),
    SIf(EInt(1), <<FnF, FnF>>, None),
    SWhile(EInt(1), <<FnF>>),
    SFn("f", <<>>, <<FnF>>),
    SIf(EInt(1), <<SFn("len", <<>>, <<>>)>>, None) }

DupCheck ==
  \E s \in DupStmts :
    /\ sem.phase = "loop"
    /\ Len(sem.program) < MaxProg
    /\ \E an \in {self_check_stmt(s, sem.an)} :
       /\ ~an.ovf
       /\ sem' = [sem EXCEPT !.an = an, !.program = Append(@, s)]
    /\ UNCHANGED <<core, ghosts, phase, ctx, pstmt, penv, workers, finished, passes, hasher, front>>

DupNext == SemStart \/ DupCheck \/ SemReturn

DupSpec == Init /\ [][DupNext]_vars

\* The statements of a program that declare name at the top level.
TopDecls(program, name) ==
  {j \in DOMAIN program : program[j].k = "Fn" /\ program[j].name = name}

\* The duplicate-function diagnostics a program calls for, in source order:
\* one for a top-level declaration after a top-level declaration of the
\* same name, and one for the second declaration of f in one if block.
RECURSIVE DupExpected(_)
DupExpected(program) ==
  IF program = <<>> THEN <<>>
  ELSE LET n == Len(program)
           s == program[n]
           before == DupExpected(SubSeq(program, 1, n - 1))
       IN  IF s.k = "Fn" /\ TopDecls(SubSeq(program, 1, n - 1), s.name) # {}
           THEN Append(before, ErrV("DuplicateFn", s.name))
           ELSE IF s = SIf(EInt(1), <<FnF, FnF>>, None)
           THEN Append(before, ErrV("DuplicateFn", "f"))
           ELSE before

\* C21: the errors of the analyzer are a duplicate-function diagnostic for
\* each fn declaration that follows a declaration of the same name in its
\* own scope, and no other: a declaration of f in a block or in a function
\* body is no duplicate of f of an enclosing scope, and a declaration of
\* len in a block is no duplicate of the built-in.
C21_DuplicateInSameScope ==
  sem.phase \in {"loop", "returned"} => sem.an.errors = DupExpected(sem.program)

\* ------------------------------- programs that are analyzed and then run
\* main's Command::Run on programs of up to MaxProg statements: analyze
\* checks the statements, and when it has returned no error the interpreter
\* runs them. The statements declare x at the top level and in an if
\* block, read x at the top level and in the body of a function f, call f,
\* and in one if block bind v, store in v a function declared in an inner
\* block that reads a variable x of that inner block, and call v.
ReadX == SExpr(EIdent("x"))
Escaped ==
  SIf(EInt(1),
      << SLet("v", EInt(0)),
         SIf(EInt(1),
             << SLet("x", EInt(1)),
                SFn("f", <<>>, <<SReturn(EIdent("x"))>>),
                SAssign("v", EIdent("f")) >>,
             None),
         SExpr(ECall("v", <<>>)) >>,
      None)
MirrorStmts ==
  { SLet("x", EInt(1)),
    ReadX,
    SIf(EInt(1), <<SLet("x", EInt(1)), ReadX>>, None),
    SIf(EInt(1), <<SLet("x", EInt(1))>>, ElseBlock(<<ReadX>>)),
    SFn("f", <<>>, <<ReadX>>),
    SFn("f", <<Param("x")>>, <<ReadX>>),
    SExpr(CallF),
    SFor("i", One, <<SExpr(EIdent("i"))>>),
    Escaped }

\* One iteration of analyze's loop over the statements of the program.
MirrorCheck ==
  \E s \in MirrorStmts :
    /\ sem.phase = "loop"
    /\ Len(sem.program) < MaxProg
    /\ \E an \in {self_check_stmt(s, sem.an)} :
       /\ ~an.ovf
       /\ sem' = [sem EXCEPT !.an = an, !.program = Append(@, s)]
    /\ UNCHANGED <<core, ghosts, phase, ctx, pstmt, penv, workers, finished, passes, hasher, front>>

\* `if !errors.is_empty() { .. exit(1) }`, and one iteration of
\* Interpreter::run's loop over the statements analyze has passed.
MirrorRun ==
  /\ sem.phase = "returned"
  /\ sem.an.errors = <<>>
  /\ sem.program # <<>>
  /\ Exec(Head(sem.program))
  /\ sem' = [sem EXCEPT !.program = Tail(@)]
  /\ UNCHANGED <<phase, ctx, pstmt, penv, workers, finished, passes, hasher, front>>
  /\ UNCHANGED ghosts

MirrorNext == SemStart \/ MirrorCheck \/ SemReturn \/ MirrorRun

MirrorSpec == Init /\ [][MirrorNext]_vars

\* C22: a program for which analyze has returned no diagnostic never fails
\* at run time with an undefined variable or an undefined function.
C22_AnalyzedNamesResolve ==
  (sem.phase = "returned" /\ sem.an.errors = <<>>) =>
    last.kind \notin {"UndefinedVariable", "UndefinedFunction"}

\* ------------------------------------------- the rendering of errors
\* LatchError::category
category(err) ==
  CASE err.kind \in {"UnexpectedChar", "UnterminatedString"} -> "Lexer Error"
    [] err.kind \in {"UnexpectedToken", "UnexpectedEOF"} -> "Parser Error"
    [] err.kind \in {"UndefinedVariable", "UndefinedFunction", "UndeclaredAssign",
                     "ReturnOutsideFn", "DuplicateFn", "ArgCountMismatch"} -> "Semantic Error"
    [] OTHER -> "Runtime Error"

\* LatchError::line_number and col_number
line_number(err) ==
  IF err.kind \in {"UnexpectedChar", "UnterminatedString", "UnexpectedToken"}
  THEN Some(err.v.line) ELSE None
col_number(err) ==
  IF err.kind \in {"UnexpectedChar", "UnterminatedString"} THEN Some(err.v.col) ELSE None

\* Option::or
or(a, b) == IF a.some THEN a ELSE b

\* The errors with an empty default_hint.
NoHint == {"TypeMismatch", "KeyNotFound", "ReturnSignal", "StopSignal", "BreakSignal",
           "ContinueSignal", "GenericError"}

\* ErrorContext::new and its builders.
ErrorContextNew == [file |-> None, line |-> None, col |-> None, source_line |-> None]
with_file(c, file) == [c EXCEPT !.file = Some(file)]
with_source(c, src) == [c EXCEPT !.source_line = Some(src)]

\* get_source_line on a source of n lines: its line `line`, the first for
\* line 0, None behind the last.
get_source_line(n, line) ==
  LET nth == IF line = 0 THEN 0 ELSE line - 1 IN
  IF nth < n THEN Some(nth + 1) ELSE None

TextLine(tag, v) == [tag |-> tag, v |-> v]

\* format_error: the lines of the rendered diagnostic.
format_error(err, c) ==
  LET line == or(line_number(err), c.line)
      col == or(col_number(err), c.col)
  IN  <<TextLine("[latch]", category(err))>>
      \o (IF c.file.some THEN <<TextLine("file", c.file.x)>> ELSE <<>>)
      \o (IF line.some /\ col.some THEN <<TextLine("line", <<line.x, col.x>>)>>
          ELSE IF line.some THEN <<TextLine("line", <<line.x>>)>>
          ELSE <<>>)
      \o (IF c.source_line.some THEN <<TextLine("->", c.source_line.x)>> ELSE <<>>)
      \o <<TextLine("reason", err)>>
      \o (IF err.kind \in NoHint THEN <<>> ELSE <<TextLine("hint", err.kind)>>)

\* main's print_error for a source of n lines.
print_error(err, file, n) ==
  LET c == with_file(ErrorContextNew, file)
      src == IF line_number(err).some THEN get_source_line(n, line_number(err).x) ELSE None
  IN  format_error(err, IF src.some THEN with_source(c, src.x) ELSE c)

\* Runs of main's Command::Run on a file of up to MaxProg statements, one
\* on each line: the lexer or the parser fails at a line of the file; or
\* analyze returns errors and each is printed; or the program passes and
\* the interpreter runs it until a statement returns an error.
File == "main.lt"
FrontErrors ==
  {ErrV(kind, [line |-> line, col |-> col]) :
     kind \in {"UnexpectedChar", "UnterminatedString"}, line \in 1..MaxProg + 1, col \in 1..2}
  \cup {ErrV("UnexpectedToken", [line |-> line]) : line \in 1..MaxProg + 1}
  \cup {Err("UnexpectedEOF")}

RenderStmts ==
  { SLet("x", EInt(1)),
    SLet("y", EIdent("b")),
    SExpr(ECall("c", <<>>)),
    SReturn(EInt(1)),
    SExpr(EBin("Div", EInt(1), EInt(0))),
    SExpr(EIndex(One, EInt(2))),
    SExpr(EBin("Add", EInt(1), ENull)),
    SBreak,
    SStop(EInt(2)) }

\* tokenize or parse_program returns an error: it is printed and main exits.
RenderFront ==
  \E err \in FrontErrors, n \in 0..MaxProg :
    /\ status = "running"
    /\ sem.phase = "new"
    /\ last' = err
    /\ stderr' = <<print_error(err, File, n)>>
    /\ status' = "exited"
    /\ exit_code' = 1
    /\ UNCHANGED <<env, heap, fns, out, stmt, ghosts>>
    /\ UNCHANGED <<phase, ctx, pstmt, penv, workers, finished, passes, hasher, sem, lex>>

RenderCheck ==
  \E s \in RenderStmts :
    /\ status = "running"
    /\ sem.phase = "loop"
    /\ Len(sem.program) < MaxProg
    /\ \E an \in {self_check_stmt(s, sem.an)} :
       /\ ~an.ovf
       /\ sem' = [sem EXCEPT !.an = an, !.program = Append(@, s)]
    /\ UNCHANGED <<core, ghosts, phase, ctx, pstmt, penv, workers, finished, passes, hasher, front>>

\* `if !errors.is_empty() { for e in &errors { print_error(..) } exit(1) }`
RenderDiagnostics ==
  /\ status = "running"
  /\ sem.phase = "returned"
  /\ sem.an.errors # <<>>
  /\ stderr' = [i \in DOMAIN sem.an.errors |->
                  print_error(sem.an.errors[i], File, Len(sem.program))]
  /\ status' = "exited"
  /\ exit_code' = 1
  /\ UNCHANGED <<env, heap, fns, out, last, stmt, ghosts>>
  /\ UNCHANGED <<phase, ctx, pstmt, penv, workers, finished, passes, hasher, sem, lex>>

\* One iteration of Interpreter::run's loop, and when the statement
\* returns an error other than a stop signal, its print_error.
RenderRun ==
  /\ sem.phase = "returned"
  /\ sem.an.errors = <<>>
  /\ sem.program # <<>>
  /\ Exec(Head(sem.program))
  /\ sem' = [sem EXCEPT !.program = Tail(@)]
  /\ stderr' = IF status' = "exited" /\ last'.kind # "StopSignal"
               THEN <<print_error(last', File, Len(sem.program))>> ELSE stderr
  /\ UNCHANGED <<phase, ctx, pstmt, penv, workers, finished, passes, hasher, lex>>
  /\ UNCHANGED ghosts

RenderNext ==
  RenderFront \/ SemStart \/ RenderCheck \/ SemReturn \/ RenderDiagnostics \/ RenderRun

RenderSpec == Init /\ [][RenderNext]_vars

HasLine(text, tag) == \E i \in DOMAIN text : text[i].tag = tag

\* C23: every diagnostic main has printed has a file line and a line line,
\* or a line that marks it as having no location.
C23_LocationOrMarker ==
  \A i \in DOMAIN stderr :
    \/ HasLine(stderr[i], "file") /\ HasLine(stderr[i], "line")
    \/ HasLine(stderr[i], "no location")

\* --------------------------------------------------- programs over pop
\* Programs that bind a to a list and x to a map and then run y := pop(..)
\* on the list, with and without an index, and on the map with a key,
\* with and without a default.
PopArgs ==
  {<<EIdent("a")>>} \cup {<<EIdent("a"), EInt(n)>> : n \in -3..2}
  \cup {<<EIdent("x"), EStr(k)>> : k \in Keys}
  \cup {<<EIdent("x"), EStr(k), EInt(0)>> : k \in Keys}
PopCalls == {SLet("y", ECall("pop", args)) : args \in PopArgs}

PopCall ==
  \E s \in PopCalls :
    /\ Bound("a") /\ Bound("x")
    /\ Step(s)
    /\ UNCHANGED ghosts

PopNext == IdxSetup \/ PopCall

PopSpec == Init /\ [][PopNext]_vars

\* C24: a step that runs y := pop(a) or pop(a, i), 0 <= i < n, on the list
\* a binds y to the last element, or to element i, and removes it from the
\* list; a step that runs y := pop(x, k) or pop(x, k, d) on the map x binds
\* y to the value under k and removes k from the map, and when the map has
\* no k binds y to d, or fails without d, leaving the map as it was.
C24_PopByReceiver ==
  [][ stmt' \in PopCalls =>
        LET args == stmt'.value.args
            c == get(env, args[1].name)
        IN  IF c.t = "list"
            THEN LET items == heap[c.v].items
                     i == IF Len(args) = 2 THEN args[2].n ELSE Len(items) - 1
                 IN  (0 <= i /\ i < Len(items)) =>
                       /\ IsOk(last')
                       /\ get(env', "y") = items[i + 1]
                       /\ heap'[c.v].items = remove(items, i)
            ELSE LET m == heap[c.v].map
                     k == args[2].s
                 IN  IF m[k] # Undef
                     THEN /\ IsOk(last')
                          /\ get(env', "y") = m[k]
                          /\ heap'[c.v].map = [m EXCEPT ![k] = Undef]
                     ELSE /\ heap'[c.v].map = m
                          /\ IF Len(args) = 3
                             THEN IsOk(last') /\ get(env', "y") = IntV(0)
                             ELSE ~IsOk(last') ]_vars

\* ------------------------------------ programs over two handles of a cell
\* Programs that bind a to a list and x to a map, bind b to the cell of a
\* or to a list of its own and v to the cell of x or to a map of its own,
\* and then compare, extend, update and slice through the handles.
LockSetups ==
  {SLet("a", EList(l)) : l \in {<<>>, <<EInt(1)>>}}
  \cup {SLet("b", e) : e \in {EIdent("a"), EList(<<EInt(1)>>)}}
  \cup {SLet("x", EMap(<<<<1, EInt(0)>>>>))}
  \cup {SLet("v", e) : e \in {EIdent("x"), EMap(<<<<2, EInt(1)>>>>)}}
LockStmts ==
  {SLet("y", EBin(op, EIdent("a"), EIdent("b"))) : op \in {"Eq", "NotEq"}}
  \cup {SLet("y", EBin(op, EIdent("x"), EIdent("v"))) : op \in {"Eq", "NotEq"}}
  \cup { SExpr(ECall("extend", <<EIdent("a"), EIdent("b")>>)),
         SExpr(ECall("update", <<EIdent("x"), EIdent("v")>>)),
         SLet("y", ESlice(EIdent("a"), Some(EInt(0)), Some(EInt(1)))),
         SLet("y", ESlice(EIdent("a"), Some(EInt(0)),
                          Some(ECall("len", <<EIdent("a")>>)))) }

LockSetup ==
  \E s \in LockSetups :
    /\ ~Bound(s.name)
    /\ s.name = "b" => Bound("a")
    /\ s.name = "v" => Bound("x")
    /\ Step(s)
    /\ UNCHANGED ghosts

LockStmt ==
  \E s \in LockStmts :
    /\ Bound("a") /\ Bound("b") /\ Bound("x") /\ Bound("v")
    /\ Step(s)
    /\ UNCHANGED ghosts

LockNext == LockSetup \/ LockStmt

LockSpec == Init /\ [][LockNext]_vars

\* C25: every comparison, extend, update and slice of the programs ends
\* with a result and the program goes on: none panics or blocks on a lock
\* its own thread holds, whether or not the two handles denote one cell.
C25_NoSelfLock ==
  stmt \in LockStmts => IsOk(last) /\ status = "running"

\* ------------------------- parallel workers that lock two shared cells
\* Programs that bind a := [] and b := [1] and run one parallel statement
\* over the items 0 and 1 on one or two threads. The body extends or
\* compares the two lists: every worker a with b, or the worker of item 0
\* a with b and the worker of item 1 b with a.
PairDecls == << SLet("a", EList(<<>>)), SLet("b", EList(<<EInt(1)>>)) >>
Extend(l, r) == SExpr(ECall("extend", <<EIdent(l), EIdent(r)>>))
Equal(l, r) == SLet("y", EBin("Eq", EIdent(l), EIdent(r)))
PairOps == {Extend("a", "b"), Equal("a", "b"), Extend("b", "a"), Equal("b", "a")}
PairBodies ==
  {<<s>> : s \in {Extend("a", "b"), Equal("a", "b")}}
  \cup {<<SIf(EBin("Eq", V, EInt(0)), <<s>>, ElseBlock(<<t>>))>> :
          s \in {Extend("a", "b"), Equal("a", "b")},
          t \in {Extend("b", "a"), Equal("b", "a")}}

\* The operation a worker runs: the statement, or the branch of the if
\* that its item selects.
PairOp(s, item) ==
  IF s.k # "If" THEN s
  ELSE IF item = IntV(0) THEN s.then[1] ELSE s.else_.x.expr.body[1]

\* The two operands of the operation, in the order their guards are taken.
PairOperands(s) == IF s.k = "Expr" THEN s.expr.args ELSE <<s.value.left, s.value.right>>

PairDecl ==
  \E j \in DOMAIN PairDecls :
    /\ ~Bound(PairDecls[j].name)
    /\ \A m \in 1..j - 1 : Bound(PairDecls[m].name)
    /\ Step(PairDecls[j])
    /\ UNCHANGED ghosts

\* Stmt::Parallel up to pool.install, at the top level.
PairStart ==
  \E body \in PairBodies, t \in 1..2 :
    /\ status = "running"
    /\ phase = "idle"
    /\ pstmt = NoStmt
    /\ \A m \in DOMAIN PairDecls : Bound(PairDecls[m].name)
    /\ \E par \in {ParStmt(<<0, 1>>, t, body)} :
       \E it \in {self_eval_expr(par.iter, Cur)} :
       \E list \in {into_list(it.v, it.st)} :
           /\ IsOk(it.r) /\ IsOk(list.r) /\ ~it.st.ovf
           /\ phase' = "par"
           /\ ctx' = "top"
           /\ pstmt' = par
           /\ penv' = it.st.env
           /\ workers' = [i \in 1..Len(list.items) |-> NewWorker(list.items[i])]
           /\ finished' = <<>>
           /\ passes' = 1
           /\ heap' = arc_drop(it.st.heap, FrameVals(env) \cup FnRoots(fns))
           /\ stmt' = par
    /\ UNCHANGED <<env, fns, out, last, status, exit_code, hasher, sem, front>>
    /\ UNCHANGED ghosts

\* The worker evaluates the two operands and takes the guard of the first:
\* `list.lock().unwrap()` of "extend", `x.lock().unwrap()` of values_equal.
PairLockFirst ==
  \E i \in DOMAIN workers :
    /\ phase = "par"
    /\ workers[i].state = "running"
    /\ \E w \in {workers[i]} :
       \E args \in {self_eval_list(PairOperands(PairOp(pstmt.body[w.pc], w.item)),
                                  WorkerSt(w))} :
           /\ IsOk(args.r) /\ ~args.st.ovf
           /\ lock_free(heap[args.vs[1].v])
           /\ workers' = [workers EXCEPT ![i].state = "locked",
                                         ![i].h = args.vs[1].v,
                                         ![i].val = args.vs[2]]
           /\ heap' = [args.st.heap EXCEPT ![args.vs[1].v].owner = i]
    /\ UNCHANGED <<env, fns, out, last, stmt, status, exit_code, ghosts>>
    /\ UNCHANGED <<phase, ctx, pstmt, penv, hasher, sem, front, passes, finished>>

\* The worker takes the guard of the second operand, `items.lock()` or
\* `y.lock()`, runs the rest of the operation under both guards and drops
\* them.
PairLockSecond ==
  \E i \in DOMAIN workers :
    /\ phase = "par"
    /\ workers[i].state = "locked"
    /\ lock_free(heap[workers[i].val.v])
    /\ \E w \in {workers[i]} :
       \E res \in {self_exec_stmt(pstmt.body[w.pc],
                     [WorkerSt(w) EXCEPT !.heap[w.h].owner = 0])} :
       \E w2 \in {after_stmt([w EXCEPT !.h = 0, !.val = Null], res.st.env, res.r,
                             pstmt.body)} :
           /\ ~res.st.ovf
           /\ workers' = [workers EXCEPT ![i] = w2]
           /\ finished' = IF w2.state = "done" THEN Append(finished, i) ELSE finished
           /\ heap' = res.st.heap
    /\ UNCHANGED <<env, fns, out, last, stmt, status, exit_code, ghosts>>
    /\ UNCHANGED <<phase, ctx, pstmt, penv, hasher, sem, front, passes>>

PairNext ==
  PairDecl \/ PairStart \/ WorkerStart \/ PairLockFirst \/ PairLockSecond \/ ParJoin

PairSpec == Init /\ [][PairNext]_vars

\* Two workers each hold the guard of the cell the other waits for.
LockCycle ==
  \E i \in DOMAIN workers, j \in DOMAIN workers :
    /\ i # j
    /\ workers[i].state = "locked" /\ workers[j].state = "locked"
    /\ heap[workers[i].val.v].owner = j
    /\ heap[workers[j].val.v].owner = i

\* C26: the workers never reach a state in which each waits for a guard
\* the other holds; every parallel statement can run on to its join.
C26_NoLockCycle == ~LockCycle

\* ------------------------------------------------- break and continue
\* Programs `x := k`, one loop, `c := x`. The body of the loop adds one to
\* x, runs break or continue (bare, in an if, or in the body of a try) and
\* then sets x to 3. In the nested programs the signal is raised in an
\* inner loop of the other kind and the outer loop adds one to x.
Wrap(sig, wrap) ==
  CASE wrap = "bare" -> sig
    [] wrap = "if" -> SIf(EInt(1), <<sig>>, None)
    [] wrap = "try" -> STry(<<sig>>, "e", <<>>, None)

XLow == EBin("Lt", EIdent("x"), EInt(2))
XInc == SAssign("x", EBin("Add", EIdent("x"), EInt(1)))
SigBody(c) ==
  <<XInc, Wrap(IF c.sig = "break" THEN SBreak ELSE SContinue, c.wrap), SAssign("x", EInt(3))>>
Items01 == EList(<<EInt(0), EInt(1)>>)

Loop(c) ==
  CASE c.kind = "while" /\ ~c.nested -> SWhile(XLow, SigBody(c))
    [] c.kind = "for" /\ ~c.nested -> SFor("v", Items01, SigBody(c))
    [] c.kind = "while" /\ c.nested -> SFor("v", Items01, <<SWhile(XLow, SigBody(c))>>)
    [] c.kind = "for" /\ c.nested ->
         SWhile(XLow, <<SFor("v", Items01, Tail(SigBody(c))), XInc>>)

LoopCases ==
  [kind : {"while", "for"}, sig : {"break", "continue"}, wrap : {"bare", "if", "try"},
   nested : BOOLEAN]
LoopStmts == {Loop(c) : c \in LoopCases}

\* The value of x after the loop when the signal ends, or continues, the
\* innermost loop around it and nothing else.
Want(c, x0) ==
  CASE c.nested -> 2
    [] c.kind = "while" /\ c.sig = "break" -> x0 + 1
    [] c.kind = "while" /\ c.sig = "continue" -> 2
    [] c.kind = "for" /\ c.sig = "break" -> x0 + 1
    [] c.kind = "for" /\ c.sig = "continue" -> x0 + 2

LoopDecl ==
  \E k \in 0..1 :
    /\ stmt \notin LoopStmts
    /\ Step(SLet("x", EInt(k)))
    /\ UNCHANGED ghosts

LoopRun ==
  \E c \in LoopCases :
    /\ stmt \in {SLet("x", EInt(k)) : k \in 0..1}
    /\ Step(Loop(c))
    /\ UNCHANGED ghosts

LoopAfter ==
  /\ stmt \in LoopStmts
  /\ Step(SLet("c", EIdent("x")))
  /\ UNCHANGED ghosts

LoopNext == LoopDecl \/ LoopRun \/ LoopAfter

LoopSpec == Init /\ [][LoopNext]_vars

\* C27: a loop whose body raises break or continue, bare or inside an if
\* or a try, ends without an error, with its per-iteration scope removed
\* and x as left by ending (break) or continuing (continue) exactly the
\* innermost loop around the signal; the next statement then runs.
C27_InnermostLoop ==
  [][\A c \in LoopCases :
       stmt' = Loop(c) /\ stmt \notin LoopStmts =>
         /\ IsOk(last') /\ status' = "running"
         /\ Len(env') = Len(env)
         /\ get(env', "x") = IntV(Want(c, get(env, "x").v))]_vars

\* ---------------------------------------------------------------- stop
\* Programs `x := 0`, a declaration of f, and one statement that reaches
\* `stop n` under blocks, loops and calls. Every level has a later
\* statement, `x = 3`, and the call would bind its value to y.
StopCodes == 0..3
XMark == SAssign("x", EInt(3))

\* The bodies of f: a stop, or a stop inside an if inside a while inside a
\* for, with a later statement at every level.
FnBody(deep, n) ==
  IF deep
  THEN <<SFor("v", Items01,
              <<SWhile(EInt(1), <<SIf(EInt(1), <<SStop(EInt(n)), XMark>>, None), XMark>>),
                XMark>>),
         SReturn(EInt(1))>>
  ELSE <<SStop(EInt(n)), SReturn(EInt(1))>>

StopCases ==
  [kind : {"block", "for", "while"}, n : StopCodes, deep : {FALSE}]
  \cup [kind : {"call"}, n : StopCodes, deep : BOOLEAN]

StopProg(c) ==
  CASE c.kind = "block" -> SIf(EInt(1), <<XInc, SStop(EInt(c.n)), XMark>>, None)
    [] c.kind = "for" -> SFor("v", Items01, <<XInc, SStop(EInt(c.n)), XMark>>)
    [] c.kind = "while" -> SWhile(XLow, <<XInc, SStop(EInt(c.n)), XMark>>)
    [] c.kind = "call" ->
         SIf(EInt(1), <<XInc, SLet("y", ECall("f", <<>>)), XMark>>, None)

StopDeclX ==
  /\ ~Bound("x")
  /\ Step(SLet("x", EInt(0)))
  /\ UNCHANGED ghosts

StopDeclF ==
  \E deep \in BOOLEAN, n \in StopCodes :
    /\ ~Bound("f")
    /\ Step(SFn("f", <<>>, FnBody(deep, n)))
    /\ UNCHANGED ghosts

\* The declared f is the one the case names.
Declared(c) ==
  /\ Bound("x") /\ Bound("f")
  /\ c.kind = "call" => fns[get(env, "f").v].body = FnBody(c.deep, c.n)

StopRun ==
  \E c \in StopCases :
    /\ Declared(c)
    /\ Step(StopProg(c))
    /\ UNCHANGED ghosts

StopNext == StopDeclX \/ StopDeclF \/ StopRun

StopSpec == Init /\ [][StopNext]_vars

\* C28: a statement that reaches `stop n` under blocks, loops and calls
\* ends the run with the stop signal and exit code n; x was incremented
\* once before the stop and no later statement ran: x is 1 and y, which
\* the call's value would be bound to, is unbound.
C28_StopEndsRun ==
  \A c \in StopCases :
    stmt = StopProg(c) /\ Declared(c) =>
      /\ status = "exited" /\ exit_code = c.n
      /\ last = ErrV("StopSignal", IntV(c.n))
      /\ get(env, "x") = IntV(1)
      /\ ~Bound("y")

\* The stop under an if under a while under a for in f, called from a
\* block, has ended the run with code 2.
C28_Witness_DeepStop ==
  /\ stmt = StopProg([kind |-> "call", n |-> 2, deep |-> TRUE])
  /\ Declared([kind |-> "call", n |-> 2, deep |-> TRUE])
  /\ status = "exited" /\ exit_code = 2

\* ------------------------------------------------ a racing index-assign
\* Programs `a := [0]` or `a := [0, 1]` and one parallel statement over one or two items, on
\* one or two threads, whose body is `a[0] = a[0] + 1`.
RaceStmt ==
  SIndexAssign(EIdent("a"), EInt(0), EBin("Add", EIndex(EIdent("a"), EInt(0)), EInt(1)))
RaceItems == {<<0>>, <<0, 1>>, <<1, 0>>}

RaceDecl ==
  \E rest \in {<<>>, <<EInt(1)>>} :
    /\ ~Bound("a")
    /\ Step(SLet("a", EList(<<EInt(0)>> \o rest)))
    /\ UNCHANGED ghosts

\* Stmt::Parallel up to pool.install, at the top level.
RaceStart ==
  \E items \in RaceItems, t \in 1..2 :
    /\ status = "running"
    /\ phase = "idle"
    /\ pstmt = NoStmt
    /\ Bound("a")
    /\ \E par \in {ParStmt(items, t, <<RaceStmt>>)} :
       \E it \in {self_eval_expr(par.iter, Cur)} :
       \E list \in {into_list(it.v, it.st)} :
           /\ IsOk(it.r) /\ IsOk(list.r) /\ ~it.st.ovf
           /\ phase' = "par"
           /\ ctx' = "top"
           /\ pstmt' = par
           /\ penv' = it.st.env
           /\ workers' = [i \in 1..Len(list.items) |-> NewWorker(list.items[i])]
           /\ finished' = <<>>
           /\ passes' = 1
           /\ heap' = arc_drop(it.st.heap, FrameVals(env) \cup FnRoots(fns))
           /\ stmt' = par
    /\ UNCHANGED <<env, fns, out, last, status, exit_code, hasher, sem, front>>
    /\ UNCHANGED ghosts

\* Stmt::IndexAssign up to the call of index_assign: the index and the
\* value are evaluated. Expr::Index takes the guard of the cell, clones the
\* item and drops the guard before the sum is formed.
RaceRead ==
  \E i \in DOMAIN workers :
    /\ phase = "par"
    /\ workers[i].state = "running"
    /\ \E w \in {workers[i]} :
       \E idx \in {self_eval_expr(pstmt.body[w.pc].index, WorkerSt(w))} :
       \E val \in {self_eval_expr(pstmt.body[w.pc].value, idx.st)} :
           /\ IsOk(idx.r) /\ IsOk(val.r) /\ ~val.st.ovf
           /\ workers' = [workers EXCEPT ![i].state = "evaluated",
                                         ![i].n = idx.v.v,
                                         ![i].val = val.v]
    /\ UNCHANGED <<core, ghosts, phase, ctx, pstmt, penv, hasher, front, sem, finished, passes>>

\* Env::index_assign: the guard of the cell is taken again and the value
\* that was computed from the earlier read is stored.
RaceWrite ==
  \E i \in DOMAIN workers :
    /\ phase = "par"
    /\ workers[i].state = "evaluated"
    /\ \E w \in {workers[i]} :
       \E res \in {index_assign(pstmt.body[w.pc].target.name, IntV(w.n), w.val, WorkerSt(w))} :
       \E w2 \in {after_stmt([w EXCEPT !.n = 0, !.val = Null], res.st.env, res.r, pstmt.body)} :
           /\ workers' = [workers EXCEPT ![i] = w2]
           /\ finished' = Append(finished, i)
           /\ heap' = res.st.heap
    /\ UNCHANGED <<env, fns, out, last, stmt, status, exit_code, ghosts>>
    /\ UNCHANGED <<phase, ctx, pstmt, penv, hasher, front, sem, passes>>

RaceNext == RaceDecl \/ RaceStart \/ WorkerStart \/ RaceRead \/ RaceWrite \/ ParJoin

RaceSpec == Init /\ [][RaceNext]_vars

\* a[0] of the shared list.
Counter == heap[get(env, "a").v].items[1].v

\* C29: after the join a[0] lies between 1 and the number of workers, and
\* on one thread, where no two workers overlap, it is that number.
C29_BetweenOneAndN ==
  Joined =>
    /\ IsOk(last)
    /\ Counter \in 1..Len(workers)
    /\ pstmt.workers.x.n = 1 => Counter = Len(workers)

\* Two workers have run the statement and one update is lost: a[0] is 1.
C29_Witness_LostUpdate == Joined /\ Len(workers) = 2 /\ Counter = 1

\* --------------------------------------------------------------- lexer
\* Sources of at most MaxSrc characters over a digit, the dot, the newline,
\* the space, the double quote and the question mark.
Chars == {"1", ".", "\n", " ", "\"", "?"}
Sources == UNION {[1..n -> Chars] : n \in 0..MaxSrc}

is_ascii_digit(ch) == ch = "1"

Tok(node, s, line, col) == [node |-> node, s |-> s, line |-> line, col |-> col]

\* Lexer::new
LexerNew(source) ==
  [phase |-> "scan", chars |-> source, pos |-> 0, line |-> 1, col |-> 1,
   tokens |-> <<>>, result |-> Ok]

at_end(lx) == lx.pos >= Len(lx.chars)
peek(lx) == lx.chars[lx.pos + 1]
advance(lx) == [lx EXCEPT !.pos = @ + 1, !.col = @ + 1]
advance_newline(lx) == [lx EXCEPT !.pos = @ + 1, !.line = @ + 1, !.col = 1]
push(lx, node, s, line, col) == [lx EXCEPT !.tokens = Append(@, Tok(node, s, line, col))]

\* The first position from pos on at which Stop holds, or the end.
First(lx, Stop(_)) ==
  LET ps == {p \in lx.pos..(Len(lx.chars) - 1) : Stop(p)} IN
  IF ps = {} THEN Len(lx.chars) ELSE CHOOSE p \in ps : \A q \in ps : p <= q

\* The two-character operators: `advance`, then a look at the next one.
two(lx, second, node2, node1) ==
  LET a == advance(lx) IN
  IF ~at_end(a) /\ peek(a) = second THEN push(advance(a), node2, <<>>, lx.line, lx.col)
  ELSE push(a, node1, <<>>, lx.line, lx.col)

\* str::parse::<f64>: digits with one dot between them.
parse_float(s) ==
  IF Cardinality({k \in DOMAIN s : s[k] = "."}) = 1 THEN Some(s) ELSE None

\* Lexer::lex_number: digits, and dots that a digit follows; `unwrap` of
\* the parse panics when the text is no number.
lex_number(lx) ==
  LET end == First(lx, LAMBDA p :
                 \/ ~(is_ascii_digit(lx.chars[p + 1]) \/ lx.chars[p + 1] = ".")
                 \/ /\ lx.chars[p + 1] = "."
                    /\ ~(p + 1 < Len(lx.chars) /\ is_ascii_digit(lx.chars[p + 2])))
      s == SubSeq(lx.chars, lx.pos + 1, end)
      is_float == \E k \in DOMAIN s : s[k] = "."
      scanned == [lx EXCEPT !.pos = end, !.col = @ + (end - lx.pos)]
  IN  IF is_float /\ ~parse_float(s).some
      THEN [scanned EXCEPT !.phase = "returned", !.result = Err("Panic")]
      ELSE push(scanned, IF is_float THEN "Float" ELSE "Int", s, lx.line, lx.col)

\* Lexer::lex_string, for text without backslash and dollar: up to the
\* closing quote, counting the lines; or the error at the opening quote.
lex_string(lx) ==
  LET close == First(advance(lx), LAMBDA p : lx.chars[p + 1] = "\"")
      s == SubSeq(lx.chars, lx.pos + 2, close)
      lines == Cardinality({k \in DOMAIN s : s[k] = "\n"})
      nl == IF lines = 0 THEN 0
            ELSE CHOOSE k \in DOMAIN s : s[k] = "\n" /\ \A j \in DOMAIN s : j > k => s[j] # "\n"
  IN  IF close >= Len(lx.chars)
      THEN [lx EXCEPT !.phase = "returned", !.pos = Len(lx.chars),
                      !.result = ErrV("UnterminatedString", <<lx.line, lx.col>>)]
      ELSE push([lx EXCEPT !.pos = close + 1, !.line = @ + lines,
                           !.col = IF lines = 0 THEN @ + Len(s) + 2 ELSE Len(s) - nl + 2],
                "Str", s, lx.line, lx.col)

\* One pass of tokenize's `while !self.at_end()`: the arm of the character.
tokenize_arm(lx) ==
  LET ch == peek(lx) IN
  CASE ch = " " -> advance(lx)
    [] ch = "\n" ->
         LET end == First(lx, LAMBDA p : lx.chars[p + 1] # "\n")
             run == [lx EXCEPT !.pos = end, !.line = @ + (end - lx.pos), !.col = 1]
         IN  IF lx.tokens = <<>> \/ lx.tokens[Len(lx.tokens)].node # "Newline"
             THEN push(run, "Newline", <<>>, lx.line, lx.col)
             ELSE run
    [] ch = "\"" -> lex_string(lx)
    [] ch = "1" -> lex_number(lx)
    [] ch = "." -> two(lx, ".", "DotDot", "Dot")
    [] ch = "?" ->
         LET a == advance(lx) IN
         IF ~at_end(a) /\ peek(a) = "?"
         THEN push(advance(a), "QuestionQuestion", <<>>, lx.line, lx.col)
         ELSE IF ~at_end(a) /\ peek(a) = "."
         THEN push(advance(a), "QuestionDot", <<>>, lx.line, lx.col)
         ELSE [a EXCEPT !.phase = "returned",
                        !.result = ErrV("UnexpectedChar", <<lx.line, lx.col>>)]

\* The end of tokenize: a trailing newline token is removed and the
\* end-of-input token is pushed.
tokenize_end(lx) ==
  LET n == Len(lx.tokens)
      kept == IF n > 0 /\ lx.tokens[n].node = "Newline" THEN SubSeq(lx.tokens, 1, n - 1)
              ELSE lx.tokens
  IN  [lx EXCEPT !.phase = "returned",
                 !.tokens = Append(kept, Tok("EOF", <<>>, lx.line, lx.col))]

LexNew ==
  \E source \in Sources :
    /\ lex = NoLexer
    /\ lex' = LexerNew(source)
    /\ UNCHANGED <<core, ghosts, phase, ctx, pstmt, penv, workers, finished, passes,
                   hasher, sem, stderr>>

LexArm ==
  /\ lex.phase = "scan"
  /\ ~at_end(lex)
  /\ lex' = tokenize_arm(lex)
  /\ UNCHANGED <<core, ghosts, phase, ctx, pstmt, penv, workers, finished, passes,
                 hasher, sem, stderr>>

LexEnd ==
  /\ lex.phase = "scan"
  /\ at_end(lex)
  /\ lex' = tokenize_end(lex)
  /\ UNCHANGED <<core, ghosts, phase, ctx, pstmt, penv, workers, finished, passes,
                 hasher, sem, stderr>>

LexNext == LexNew \/ LexArm \/ LexEnd

LexSpec == Init /\ [][LexNext]_vars

\* The token stream ends with the only end-of-input token and has no two
\* newline tokens side by side.
WellFormed(tokens) ==
  /\ tokens # <<>>
  /\ \A k \in DOMAIN tokens : tokens[k].node = "EOF" <=> k = Len(tokens)
  /\ \A k \in 1..(Len(tokens) - 1) :
       ~(tokens[k].node = "Newline" /\ tokens[k + 1].node = "Newline")

\* The concatenated text of the number and dot tokens is the source, for a
\* source of digits and dots.
Text(tok) ==
  CASE tok.node \in {"Int", "Float"} -> tok.s
    [] tok.node = "Dot" -> <<".">>
    [] tok.node = "DotDot" -> <<".", ".">>
    [] OTHER -> <<>>
RECURSIVE Concat(_)
Concat(tokens) == IF tokens = <<>> THEN <<>> ELSE Text(Head(tokens)) \o Concat(Tail(tokens))

\* C30: tokenize returns a well-formed token stream, or an unexpected
\* character or unterminated string error with its line and column; a
\* source of digits and dots alone is split into integer, float and dot
\* tokens that spell the source.
C30_TokenizeReturns ==
  lex.phase = "returned" =>
    \/ /\ IsOk(lex.result)
       /\ WellFormed(lex.tokens)
       /\ (\A k \in DOMAIN lex.chars : lex.chars[k] \in {"1", "."}) =>
            Concat(lex.tokens) = lex.chars
    \/ /\ lex.result.kind \in {"UnexpectedChar", "UnterminatedString"}
       /\ lex.result.v[1] >= 1 /\ lex.result.v[2] >= 1

====
